---- MODULE Spec2Model ----
(***************************************************************************)
(* Model of the real-time device-state synchronisation core of the         *)
(* Computherm B integration: the WebSocket client (websocket.py) and the   *)
(* coordinator's merge of its updates (coordinator.py).                    *)
(*                                                                         *)
(* Python values are modelled as strings ("None" is Python's None, "True"  *)
(* and "False" its booleans, numbers are numerals such as "21"), Python    *)
(* dicts as functions whose DOMAIN is the set of keys present, so that a   *)
(* key that is absent and a key that maps to None stay different.          *)
(* Sensor keys f"{src}_{suffix}" are modelled as pairs <<src, suffix>>.    *)
(* DeviceAttributes keys that websocket.py and coordinator.py use but the  *)
(* const.py of this snapshot does not list (SENSOR_READINGS,               *)
(* CONTROLLING_SRC, CONTROLLING_SENSOR, CURRENT_TEMPERATURE) are taken as  *)
(* four further distinct keys.                                             *)
(***************************************************************************)
EXTENDS Integers, Sequences, FiniteSets, Bags, TLC

VARIABLES
    \* coordinator
    device_data,              \* coordinator.device_data: serial -> record
    notified,                 \* number of async_set_updated_data calls so far
    fetch_tasks,              \* pending _fetch_sensor_metadata/_fetch_wifi_state tasks
    devices,                  \* coordinator.devices: serial -> the device's description
    async_stop,               \* position of async_stop(): "idle", "awaiting" (its await of
                              \* the client's stop()), "awaiting_replaced" (the same
                              \* when the refresh has built another client), "done"
    \* client
    devices_with_base_info,   \* client._devices_with_base_info
    pc,                       \* position of the latest _websocket_handler task; "cancelled"
                              \* when its cancellation is requested and it is not done yet
    watchdog,                 \* state of the latest _connection_watchdog task
    stop_pc,                  \* position of stop(): "idle", "requested" (the coordinator's
                              \* token refresh is scheduled and will call it), "closing"
                              \* (awaiting the socket's close), "await_ws" and "resume_ws"
                              \* (awaiting the cancelled connection task, before and after
                              \* it is done), "await_wd" and "resume_wd" (the same for the
                              \* watchdog), "stopped"
    websocket,                \* self.websocket: "None", or a handle on an "open"/"closed" socket
    stopping,                 \* self._stopping
    reconnect_attempts,       \* self._reconnect_attempts
    reconnect_interval,       \* self._reconnect_interval
    ping_interval,            \* self._ping_interval in seconds, 0 for None
    time_since_last_message,  \* now - self._last_message_time in seconds, -1 for None
    scan_index,               \* index into device_serials of the next initial scan
    token_near_expiry,        \* what _token_needs_refresh() returns
    \* the token
    auth_token,               \* self.auth_token: [id, segments, b64, json, exp_kind, exp]
    clock,                    \* datetime.now(), in hours
    token_refresh_in_progress,\* self._token_refresh_in_progress
    rejected,                 \* ids of the tokens whose login the server has rejected
    signalled,                \* ids of the tokens for which a refresh was asked
    \* tasks
    ws_task,                  \* self._ws_task: "None", or "task" (the task pc describes)
    watchdog_task,            \* self._watchdog_task: "None", or "task"
    lost_tasks,               \* live connection tasks that self._ws_task no longer names
    lost_watchdogs,           \* live watchdog tasks that self._watchdog_task no longer names
    stop_calls,               \* stop() calls since the latest start()
    raced,                    \* whether a start() has run while a stop() was in progress
    \* discovery
    monitors,                 \* the pending _monitor_base_info_timeout tasks, a bag of records
                              \* [pc, todo, cur]: "wait" (the first sleep) or "retry" (the
                              \* sleep before cur's scan, todo the serials left to visit)
    scan_retry_count,         \* self._scan_retry_count, 0 for a serial it does not hold
    synth_calls,              \* synthesize_base_info_needed requests made so far
    \* what the latest step put out
    sent,                     \* the frames it sent on the socket
    called,                   \* the payloads it handed to data_callback
    \* timers, in seconds until they fire
    sleep_left,               \* the backoff sleep of _websocket_handler
    recv_left,                \* the wait_for timeout of _process_messages
    watchdog_left,            \* the sleep of _connection_watchdog
    \* history
    last_msg,                 \* the frame handled by the latest _handle_message
    last_update,              \* what that frame handed to data_callback ({} if nothing)
    merged_frames,            \* number of frames merged into device_data
    fetches_merged,           \* number of fetch results merged into device_data
    frames_seen,              \* number of event frames handled
    since_close,              \* seconds since the watchdog closed the socket, -1 if it did not
                              \* close the latest one
    last_backoff              \* the latest backoff_time computed

coordVars == <<device_data, notified, fetch_tasks, devices, async_stop>>
clientVars == <<devices_with_base_info, pc, watchdog, stop_pc, websocket, stopping,
                reconnect_attempts, reconnect_interval, ping_interval,
                time_since_last_message, scan_index, token_near_expiry>>
tokVars == <<auth_token, clock, token_refresh_in_progress, rejected, signalled>>
taskVars == <<ws_task, watchdog_task, lost_tasks, lost_watchdogs, stop_calls, raced>>
monVars == <<monitors, scan_retry_count, synth_calls>>
outVars == <<sent, called>>
timerVars == <<sleep_left, recv_left, watchdog_left>>
histVars == <<last_msg, last_update, merged_frames, fetches_merged, frames_seen,
              since_close, last_backoff>>
mergeVars == <<device_data, notified, fetch_tasks, devices_with_base_info,
               last_msg, last_update, merged_frames, fetches_merged, frames_seen>>
vars == <<coordVars, clientVars, tokVars, taskVars, monVars, outVars, timerVars, histVars>>

----------------------------------------------------------------------------
(* Bounds *)

\* event frames handled on a connection
MaxFrames == 2
\* consecutive failed attempts followed (one past the first overflow of the backoff)
MaxAttempts == 1023
\* seconds up to which the time since the last message is counted
ElapsedCap == 40
\* seconds up to which the time since a watchdog close is counted
SinceCap == 8
\* tasks followed after the client lost its reference to them
MaxLost == 1
\* stop() calls followed between two start() calls
MaxStopCalls == 2
\* consecutive failed attempts followed where start and stop interleave freely
MaxLifeAttempts == 2
\* discovery-timeout tasks followed at a time, beside the one that runs
MaxMonitors == 2
\* synthesize_base_info_needed requests followed
MaxSynth == 2
\* hours followed
MaxClock == 3
\* tokens the REST collaborator issues
MaxTokens == 2

----------------------------------------------------------------------------
(* Python values and dicts *)

None == "None"
EmptyDict == [k \in {} |-> None]

Has(d, k) == k \in DOMAIN d
Get(d, k) == IF k \in DOMAIN d THEN d[k] ELSE None
GetOr(d, k, default) == IF k \in DOMAIN d THEN d[k] ELSE default
Put(d, k, v) == [x \in DOMAIN d \cup {k} |-> IF x = k THEN v ELSE d[x]]
Update(a, b) == [x \in DOMAIN a \cup DOMAIN b |-> IF x \in DOMAIN b THEN b[x] ELSE a[x]]
Truthy(v) == v # None /\ v # ""
PyBool(b) == IF b THEN "True" ELSE "False"

\* str.upper() and str.lower() on the tokens of the protocol
Upper(s) ==
    CASE s = "onboard" -> "ONBOARD"
      [] s = "remote" -> "REMOTE"
      [] s = "temperature" -> "TEMPERATURE"
      [] s = "humidity" -> "HUMIDITY"
      [] OTHER -> s

Lower(s) ==
    CASE s = "ONBOARD" -> "onboard"
      [] s = "REMOTE" -> "remote"
      [] s = "HEATING" -> "heating"
      [] s = "COOLING" -> "cooling"
      [] s = "MANUAL" -> "manual"
      [] s = "SCHEDULE" -> "schedule"
      [] s = "OFF" -> "off"
      [] OTHER -> s

----------------------------------------------------------------------------
(* Configuration: the devices the REST collaborator listed *)

Devices ==
    [s \in {"A", "B"} |->
        [id |-> IF s = "A" THEN "7" ELSE "8", serial_number |-> s,
         fw_ver |-> "1.0", device_type |-> "BSERIES"]]

DeviceSerials == DOMAIN Devices

\* the serials in the order of the devices dictionary, as the client gets them
DeviceSerialList == <<"A", "B">>

----------------------------------------------------------------------------
(* WebSocketMessageHandler: readings *)

\* "N/A" on a reading or controlling_reading becomes None
NormReadingZero(v) == IF v = "N/A" THEN "0" ELSE v
NormReading(v) == IF v = "N/A" THEN None ELSE v

\* "N/A" and "OFF" on a setpoint become None
NormSetPoint(v) == IF v \in {"N/A", "OFF"} THEN None ELSE v

\* the sensor key of a reading: ONBOARD_<type>, <src>_<id>, or <src>_<sensor>
SensorKey(reading) ==
    LET src == Upper(GetOr(reading, "src", ""))
        sensor_id == Get(reading, "id")
        reading_type == Upper(GetOr(reading, "type", ""))
    IN IF src = "ONBOARD" THEN <<src, reading_type>>
       ELSE IF sensor_id # None THEN <<src, sensor_id>>
       ELSE <<src, GetOr(reading, "sensor", "1")>>

\* the sensor key the controlling-sensor pointer designates
ControllingKey(controlling_src, sensor_id) ==
    IF controlling_src = "ONBOARD" THEN <<"ONBOARD", "TEMPERATURE">>
    ELSE IF sensor_id # None THEN <<controlling_src, sensor_id>>
    ELSE <<controlling_src, "1">>

\* rssi_level is lower-cased, battery and rssi are copied
SensorAttrs(reading) ==
    [a \in {"battery", "rssi", "rssi_level"} \cap DOMAIN reading |->
        IF a = "rssi_level"
        THEN (IF reading[a] # None THEN Lower(reading[a]) ELSE None)
        ELSE reading[a]]

\* one iteration of the loop over readings
ReadingStep(device_update, reading) ==
    IF ~Has(reading, "reading") THEN device_update
    ELSE
    LET src == Upper(GetOr(reading, "src", ""))
        sensor_key == SensorKey(reading)
        readings0 == device_update["sensor_readings"]
        entry0 == IF sensor_key \in DOMAIN readings0 THEN readings0[sensor_key] ELSE EmptyDict
        entry1 == Update(entry0, [src |-> Lower(src),
                                  name |-> GetOr(reading, "name", ""),
                                  type |-> Get(reading, "type")])
        entry2 == Update(entry1, SensorAttrs(reading))
        du1 == IF Has(reading, "src") /\ ~Has(device_update, "src")
               THEN Put(device_update, "src", Lower(src)) ELSE device_update
        reading_value == NormReading(reading["reading"])
    IN CASE reading["type"] = "TEMPERATURE" ->
              LET du2 == Put(du1, "sensor_readings",
                             Put(readings0, sensor_key, Put(entry2, "reading", reading_value)))
              IN IF ~Has(du2, "temperature") THEN Put(du2, "temperature", reading_value) ELSE du2
         [] reading["type"] = "HUMIDITY" ->
              Put(Put(du1, "sensor_readings", Put(readings0, sensor_key, entry2)),
                  "humidity", reading_value)
         [] reading["type"] = "TARGET_TEMPERATURE" ->
              Put(Put(du1, "sensor_readings", Put(readings0, sensor_key, entry2)),
                  "target_temperature", reading_value)
         [] OTHER -> Put(du1, "sensor_readings", Put(readings0, sensor_key, entry2))

RECURSIVE ReadingLoop(_, _)
ReadingLoop(device_update, readings) ==
    IF readings = <<>> THEN device_update
    ELSE ReadingLoop(ReadingStep(device_update, Head(readings)), Tail(readings))

\* current_temperature from the sensor the pointer designates, if it has a reading
SetCurrentTemperature(device_update, controlling_src, sensor_id) ==
    LET sensor_key == ControllingKey(controlling_src, sensor_id)
        readings == device_update["sensor_readings"]
    IN IF sensor_key \in DOMAIN readings /\ Has(readings[sensor_key], "reading")
       THEN Put(device_update, "current_temperature", readings[sensor_key]["reading"])
       ELSE device_update

\* the sensor_readings map is created when the update has none yet
InitSensorReadings(device_update) ==
    IF ~Has(device_update, "sensor_readings")
    THEN Put(device_update, "sensor_readings", EmptyDict) ELSE device_update

\* the pointer is the update's, or else the stored record's
ReadingsControlling(device_update, serial, stored) ==
    LET use_stored == ~Truthy(Get(device_update, "controlling_src")) /\ serial \in DOMAIN stored
        controlling_src == IF use_stored THEN Get(stored[serial], "controlling_src")
                           ELSE Get(device_update, "controlling_src")
        sensor_id == IF use_stored THEN Get(stored[serial], "controlling_sensor")
                     ELSE Get(device_update, "controlling_sensor")
    IN IF Truthy(controlling_src) /\ Has(device_update, "sensor_readings")
       THEN SetCurrentTemperature(device_update, controlling_src, sensor_id)
       ELSE device_update

\* _process_readings(readings, serial, device_update, coordinator)
ProcessReadings(readings, serial, device_update, stored) ==
    ReadingsControlling(ReadingLoop(InitSensorReadings(device_update), readings), serial, stored)

----------------------------------------------------------------------------
(* WebSocketMessageHandler: relays *)

\* relay_state and is_heating
RelayState(du, relay) ==
    IF Has(relay, "relay_state")
    THEN Put(Put(du, "relay_state", PyBool(relay["relay_state"] = "ON")),
             "is_heating", PyBool(relay["relay_state"] = "ON"))
    ELSE du

\* function and mode are written only when the relay entry carries the key
RelayFunctionModeAlways(du, relay) ==
    Put(Put(du, "function", IF Get(relay, "function") # None THEN Lower(relay["function"]) ELSE None),
        "mode", IF Get(relay, "mode") # None THEN Lower(relay["mode"]) ELSE None)
RelayFunctionMode(du, relay) ==
    LET du1 == IF Has(relay, "function")
               THEN Put(du, "function",
                        IF relay["function"] # None THEN Lower(relay["function"]) ELSE None)
               ELSE du
    IN IF Has(relay, "mode")
       THEN Put(du1, "mode", IF relay["mode"] # None THEN Lower(relay["mode"]) ELSE None)
       ELSE du1

\* the target setpoint, chosen by the relay entry's own mode
RelaySetPoint(du, relay) ==
    IF Has(relay, "mode")
    THEN IF relay["mode"] = "SCHEDULE" /\ Has(relay, "schedule_set_point")
         THEN Put(du, "target_temperature", NormSetPoint(relay["schedule_set_point"]))
         ELSE IF relay["mode"] = "MANUAL" /\ Has(relay, "manual_set_point")
         THEN Put(du, "target_temperature", NormSetPoint(relay["manual_set_point"]))
         ELSE du
    ELSE IF Has(relay, "manual_set_point") /\ ~Has(du, "target_temperature")
    THEN Put(du, "target_temperature", NormSetPoint(relay["manual_set_point"]))
    ELSE du

\* controlling_src, controlling_sensor and the older controlling_reading
RelayControlling(du, relay) ==
    LET du1 == IF Has(relay, "controlling_src")
               THEN Put(du, "controlling_src", Upper(relay["controlling_src"])) ELSE du
        du2 == IF Has(relay, "controlling_sensor")
               THEN Put(du1, "controlling_sensor", relay["controlling_sensor"]) ELSE du1
    IN IF Has(relay, "controlling_reading")
       THEN Put(du2, "current_temperature", NormReading(relay["controlling_reading"]))
       ELSE du2

RelayStep(device_update, relay) ==
    RelayControlling(RelaySetPoint(RelayFunctionMode(RelayState(device_update, relay), relay), relay), relay)

RECURSIVE RelayLoop(_, _)
RelayLoop(device_update, relays) ==
    IF relays = <<>> THEN device_update
    ELSE RelayLoop(RelayStep(device_update, Head(relays)), Tail(relays))

\* after the loop: current_temperature from the pointer the update now holds
RelaysControlling(device_update) ==
    IF Has(device_update, "controlling_src") /\ Has(device_update, "sensor_readings")
    THEN SetCurrentTemperature(device_update, device_update["controlling_src"],
                               Get(device_update, "controlling_sensor"))
    ELSE device_update

\* _process_relays(relays, serial, device_update)
ProcessRelays(relays, device_update) ==
    RelaysControlling(RelayLoop(device_update, relays))

----------------------------------------------------------------------------
(* WebSocketMessageHandler: base_info *)

\* the sensor registry of a discovery payload, keyed by sensor number
SensorRegistry(reading_array) ==
    [n \in {reading_array[i]["sensor"] : i \in DOMAIN reading_array} |->
        LET i == CHOOSE j \in DOMAIN reading_array :
                    /\ reading_array[j]["sensor"] = n
                    /\ \A k \in DOMAIN reading_array : reading_array[k]["sensor"] = n => k <= j
            reading == reading_array[i]
        IN [id |-> Get(reading, "id"),
            src |-> IF reading["src"] # None THEN Lower(reading["src"]) ELSE None,
            sensor |-> reading["sensor"],
            type |-> reading["type"],
            name |-> reading["name"]]]

\* the relay registry of a discovery payload, keyed by relay number
RelayRegistry(relay_array) ==
    [n \in {relay_array[i]["relay"] : i \in DOMAIN relay_array} |->
        relay_array[CHOOSE j \in DOMAIN relay_array :
                        /\ relay_array[j]["relay"] = n
                        /\ \A k \in DOMAIN relay_array : relay_array[k]["relay"] = n => k <= j]]

\* process_base_info(event_data, serial, coordinator); the system block (rssi,
\* uptime and the boot timestamp derived from the clock) is not modelled
BaseInfoUpdate(event_data, reading_array, relay_array) ==
    [online |-> GetOr(event_data, "online", "False"),
     base_info |-> event_data["base_info"],
     available_sensor_ids |-> [i \in DOMAIN reading_array |-> reading_array[i]["sensor"]],
     available_relay_ids |-> [i \in DOMAIN relay_array |-> relay_array[i]["relay"]],
     sensors |-> SensorRegistry(reading_array),
     relays |-> RelayRegistry(relay_array)]

BaseInfoReadings(reading_array, serial, device_update, stored) ==
    IF reading_array # <<>>
    THEN ProcessReadings(reading_array, serial, device_update, stored) ELSE device_update

BaseInfoRelays(relay_array, device_update) ==
    IF relay_array # <<>> THEN ProcessRelays(relay_array, device_update) ELSE device_update

ProcessBaseInfo(event_data, serial, stored) ==
    BaseInfoRelays(GetOr(event_data, "relays", <<>>),
        BaseInfoReadings(GetOr(event_data, "readings", <<>>), serial,
            BaseInfoUpdate(event_data, GetOr(event_data, "readings", <<>>),
                           GetOr(event_data, "relays", <<>>)),
            stored))

----------------------------------------------------------------------------
(* Coordinator: merge of one device update *)

\* _initialize_device_data(serial)
InitializeDeviceData(serial) ==
    Update(Devices[serial],
           [temperature |-> None, target_temperature |-> None,
            current_temperature |-> None, function |-> None, mode |-> None,
            relay_state |-> None, online |-> "False", sensor_readings |-> EmptyDict,
            controlling_src |-> None, controlling_sensor |-> None,
            is_heating |-> "False", base_info |-> None])

\* _process_state_update(serial, device_data) on the stored record
ProcessStateUpdate(record, device_update) ==
    IF Get(device_update, "function") = None /\ Get(record, "function") # None
    THEN Put(Update(record, device_update), "function", record["function"])
    ELSE IF Get(device_update, "mode") = None /\ Get(record, "mode") # None
    THEN Put(Update(record, device_update), "mode", record["mode"])
    ELSE Update(record, device_update)

\* the tasks _process_base_info_update creates: one per metadata endpoint
BaseInfoFetchTasks(serial, device_update) ==
    IF Truthy(Get(device_update["base_info"], "id"))
    THEN << [serial |-> serial, kind |-> "sensor_metadata"],
            [serial |-> serial, kind |-> "wifi_state"] >>
    ELSE << >>

\* async_set_updated_data calls of one _process_device_update
NotificationsPerDeviceAndFetch(device_update) ==
    IF Has(device_update, "base_info") THEN 3 ELSE 1
NotificationsPerUpdate(device_update) == 1

\* _process_device_update working on a copy of the record taken before the
\* metadata fetches stored their results
ProcessDeviceUpdateOnSnapshot(stored, serial, device_update) ==
    LET record0 == IF serial \notin DOMAIN stored
                   THEN InitializeDeviceData(serial)
                   ELSE [k \in DOMAIN stored[serial] \ {"sensor_metadata", "wifi_info"} |->
                            stored[serial][k]]
        is_base == Has(device_update, "base_info")
        record1 == IF is_base THEN Update(record0, device_update) ELSE record0
        record2 == ProcessStateUpdate(record1, device_update)
    IN [data |-> Put(stored, serial, record2),
        tasks |-> IF is_base THEN BaseInfoFetchTasks(serial, device_update) ELSE << >>,
        notify |-> NotificationsPerUpdate(device_update)]

\* _process_device_update(serial, device_data): the record after the merge,
\* the tasks created and the number of listener notifications
ProcessDeviceUpdate(stored, serial, device_update) ==
    LET record0 == IF serial \notin DOMAIN stored
                   THEN InitializeDeviceData(serial) ELSE stored[serial]
        is_base == Has(device_update, "base_info")
        record1 == IF is_base THEN Update(record0, device_update) ELSE record0
        record2 == ProcessStateUpdate(record1, device_update)
    IN [data |-> Put(stored, serial, record2),
        tasks |-> IF is_base THEN BaseInfoFetchTasks(serial, device_update) ELSE << >>,
        notify |-> NotificationsPerUpdate(device_update)]

\* _handle_ws_update(update) for an update {serial: device_update}
HandleWsUpdate(stored, serial, device_update) ==
    IF serial \in DOMAIN devices
    THEN ProcessDeviceUpdate(stored, serial, device_update)
    ELSE [data |-> stored, tasks |-> << >>, notify |-> 0]

\* _synthesize_base_info: the base_info built from the devices dictionary
SyntheticBaseInfo(serial) ==
    [id |-> Get(Devices[serial], "id"), serial_number |-> serial,
     brand |-> Get(Devices[serial], "brand"), type |-> Get(Devices[serial], "type"),
     user_id |-> Get(Devices[serial], "user_id"), fw_ver |-> Get(Devices[serial], "fw_ver"),
     device_type |-> Get(Devices[serial], "device_type"),
     name |-> <<GetOr(Devices[serial], "device_type", "Thermostat"), serial>>,
     timezone |-> "Europe/Budapest", group_color |-> None, assigned_partner |-> None]

\* _synthesize_base_info: the device update built around it from the record
SyntheticUpdate(serial, current_data) ==
    Update([k \in {"sensor_readings", "temperature", "current_temperature",
                   "target_temperature"} \cap DOMAIN current_data |-> current_data[k]],
           [base_info |-> SyntheticBaseInfo(serial),
            online |-> GetOr(current_data, "online", "False"),
            available_sensor_ids |-> << >>,
            available_relay_ids |-> <<"1">>,
            sensors |-> EmptyDict,
            relays |-> [r \in {"1"} |->
                          [relay |-> "1", type |-> "THERMOSTAT",
                           mode |-> GetOr(current_data, "mode", "MANUAL"),
                           function |-> GetOr(current_data, "function", "HEATING"),
                           relay_state |-> GetOr(current_data, "relay_state", "False")]]])

\* _synthesize_base_info(serial): the record after _process_base_info_update,
\* the tasks it creates and the one notification
SynthesizeBaseInfo(stored, serial) ==
    IF serial \notin DOMAIN devices
    THEN [data |-> stored, tasks |-> << >>, notify |-> 0]
    ELSE LET record0 == IF serial \notin DOMAIN stored
                        THEN InitializeDeviceData(serial) ELSE stored[serial]
         IN [data |-> Put(stored, serial, Update(record0, SyntheticUpdate(serial, record0))),
             tasks |-> BaseInfoFetchTasks(serial, SyntheticUpdate(serial, record0)),
             notify |-> 1]

----------------------------------------------------------------------------
(* WebSocketClient._handle_message: the event branch *)

\* the serial an event names: base_info's for a discovery payload
EventSerial(event_data) ==
    IF Has(event_data, "base_info")
    THEN Get(event_data["base_info"], "serial_number")
    ELSE Get(event_data, "serial_number")

\* whether the event is handed on: its serial is set and configured
EventAcceptedAny(event_data) == Truthy(EventSerial(event_data))
EventAccepted(event_data) ==
    Truthy(EventSerial(event_data)) /\ EventSerial(event_data) \in DeviceSerials

\* the device_update built from an accepted event
EventUpdate(event_data, stored) ==
    IF Has(event_data, "base_info")
    THEN ProcessBaseInfo(event_data, EventSerial(event_data), stored)
    ELSE [online |-> GetOr(event_data, "online", "False")]

EventReadings(event_data, device_update, stored) ==
    IF Has(event_data, "readings")
    THEN ProcessReadings(event_data["readings"], EventSerial(event_data), device_update, stored)
    ELSE device_update

EventRelays(event_data, device_update) ==
    IF Has(event_data, "relays")
    THEN ProcessRelays(event_data["relays"], device_update) ELSE device_update

DeviceUpdateOf(event_data, stored) ==
    EventRelays(event_data, EventReadings(event_data, EventUpdate(event_data, stored), stored))

\* the stored map after the whole merge of an accepted event
MergeEvent(stored, event_data) ==
    HandleWsUpdate(stored, EventSerial(event_data), DeviceUpdateOf(event_data, stored))

----------------------------------------------------------------------------
(* Frames *)

\* a frame as _handle_message sees it: the engine.io/Socket.IO code, and for a
\* "42/devices," frame the two elements of its JSON array
Frame(frame, name, payload) == [frame |-> frame, name |-> name, payload |-> payload]
ControlFrame(code) == Frame(code, "", EmptyDict)
NoFrame == ControlFrame("")

\* a frame that starts with 42/devices and is not `42/devices,[name, payload]`:
\* its shape says what follows the prefix
Malformed(shape) ==
    [frame |-> "42", shape |-> shape, payload |-> EmptyDict,
     name |-> IF shape = "exception, payload not an object" THEN "exception" ELSE ""]
Shape(msg) == IF "shape" \in DOMAIN msg THEN msg.shape ELSE "pair"

\* the exception branch: the error the server sends for a rejected token
Forbidden(error_data) ==
    /\ Get(error_data, "status") = "error"
    /\ GetOr(error_data, "message", "Unknown error") = "Forbidden resource"

\* hasattr(error_code, 'rcvd'): no value decoded from JSON has the attribute
HasRcvd(error_code) == FALSE

\* the frame is taken for `42/devices,[name, payload]` whatever follows the prefix
HandleWebsocketMessageUnchecked(msg) ==
    IF msg.frame # "42" THEN "none"
    ELSE IF msg.name = "exception" THEN "close"
    ELSE "data"

\* handle_websocket_message: "none" (not a devices frame, or malformed),
\* "close" (an exception frame) or "data"
HandleWebsocketMessage(msg) ==
    IF msg.frame # "42" THEN "none"
    ELSE IF Shape(msg) = "no comma" THEN "none"
    ELSE IF Shape(msg) = "invalid json" THEN "none"
    ELSE IF Shape(msg) \in {"not an array", "array of 1", "array of 3"} THEN "none"
    ELSE IF msg.name = "exception"
    THEN IF Shape(msg) = "exception, payload not an object" THEN "none"
         ELSE IF Forbidden(msg.payload) THEN "close"
         ELSE IF HasRcvd(Get(msg.payload, "code")) THEN "close"   \* logged at debug level
         ELSE "close"
    ELSE "data"

\* a payload whose handling raises: a reading that carries "reading" but no "type"
HandlingRaises(payload) ==
    /\ Has(payload, "readings")
    /\ \E i \in DOMAIN payload["readings"] :
          Has(payload["readings"][i], "reading") /\ ~Has(payload["readings"][i], "type")

\* _handle_message leaving the socket open whatever the framer says
ClassifyKeepsOpen(msg) ==
    CASE msg.frame = "2" -> "ping"
      [] msg.frame = "1" -> "disconnect"
      [] msg.frame \in {"0", "40", "41"} -> "ignored"
      [] HandleWebsocketMessage(msg) \in {"none", "close"} -> "ignored"
      [] msg.name # "event" -> "ignored"
      [] ~EventAccepted(msg.payload) -> "dropped"
      [] HandlingRaises(msg.payload) -> "raise"
      [] OTHER -> "merge"

\* what _handle_message does with a frame
Classify(msg) ==
    CASE msg.frame = "2" -> "ping"
      [] msg.frame = "1" -> "disconnect"
      [] msg.frame \in {"0", "40", "41"} -> "ignored"
      [] HandleWebsocketMessage(msg) = "none" -> "ignored"
      [] HandleWebsocketMessage(msg) = "close" -> "close"
      [] msg.name # "event" -> "ignored"
      [] ~EventAccepted(msg.payload) -> "dropped"
      [] HandlingRaises(msg.payload) -> "raise"
      [] OTHER -> "merge"

----------------------------------------------------------------------------
(* Inputs: the payloads the server sends *)

Reading(src, id, type, value) ==
    [src |-> src, id |-> id, sensor |-> id, type |-> type, name |-> "", reading |-> value]

Onboard(value) == Reading("ONBOARD", "1", "TEMPERATURE", value)
Remote1(value) == Reading("REMOTE", "1", "TEMPERATURE", value)
Remote2(value) == Reading("REMOTE", "2", "TEMPERATURE", value)

ReadingLists ==
    { << >>,
      << Onboard("21") >>, << Onboard("0") >>, << Onboard("N/A") >>,
      << Remote1("19") >>, << Remote1("20") >>,
      << Reading("ONBOARD", "1", "HUMIDITY", "N/A") >>,
      << Reading("ONBOARD", "1", "TARGET_TEMPERATURE", "N/A") >>,
      << Onboard("21"), Remote1("19") >>,
      << Remote1("19"), Remote2("23") >> }

Relay(fields) == Update([relay |-> "1"], fields)

\* relay entries about the controlling sensor
PointerRelays ==
    { << Relay([controlling_src |-> "ONBOARD"]) >>,
      << Relay([controlling_src |-> "REMOTE", controlling_sensor |-> "1"]) >>,
      << Relay([controlling_src |-> "remote"]) >>,
      << Relay([controlling_sensor |-> "2"]) >>,
      << Relay([controlling_reading |-> "N/A"]) >>,
      << Relay([controlling_reading |-> "0"]) >> }

\* relay entries about function, mode, state and setpoints
StateRelays ==
    { << Relay([function |-> "HEATING", mode |-> "MANUAL", manual_set_point |-> "22"]) >>,
      << Relay([mode |-> "SCHEDULE", schedule_set_point |-> "N/A", manual_set_point |-> "22"]) >>,
      << Relay([mode |-> "MANUAL", manual_set_point |-> "0"]) >>,
      << Relay([mode |-> "MANUAL", manual_set_point |-> "OFF"]) >>,
      << Relay([function |-> "COOLING"]) >>,
      << Relay([mode |-> "OFF", manual_set_point |-> "22"]) >>,
      << Relay([relay_state |-> "ON"]) >>,
      << Relay([manual_set_point |-> "N/A"]) >>,
      << Relay([manual_set_point |-> "18", schedule_set_point |-> "21"]) >>,
      << Relay([function |-> None]) >>,
      << Relay([mode |-> None]) >>,
      << Relay([function |-> None, mode |-> None]) >> }

\* the optional parts of a payload: a dict with the key, or without it
Opt(key, values) == {EmptyDict} \cup {[k \in {key} |-> v] : v \in values}

Bodies ==
    {Update(r, l) : r \in Opt("readings", ReadingLists), l \in Opt("relays", PointerRelays)}
    \cup {Update(o, l) : o \in Opt("online", {"True"}), l \in Opt("relays", StateRelays)}

SteadyPayloads(serial) == {Update([serial_number |-> serial], b) : b \in Bodies}

\* discovery payloads; those that carry the device id start the metadata fetches
BaseInfoPayloads(serial) ==
    {Update([base_info |-> [serial_number |-> serial]], b) : b \in Bodies}
    \cup {[base_info |-> [serial_number |-> serial, id |-> "7"], online |-> "True",
           readings |-> << Onboard("21") >>,
           relays |-> << Relay([controlling_src |-> "ONBOARD"]) >>]}

\* an unconfigured device's payloads
UnknownPayloads ==
    { [serial_number |-> "C", online |-> "True", readings |-> << Onboard("21") >>],
      [base_info |-> [serial_number |-> "C", id |-> "9"], online |-> "True",
       readings |-> << Onboard("21") >>],
      [online |-> "True"] }

\* the second configured device sends a few payloads only
OtherPayloads ==
    { [serial_number |-> "B", online |-> "True", readings |-> << Onboard("21") >>],
      [base_info |-> [serial_number |-> "B"], online |-> "True"] }

MergeFrames ==
    {Frame("42", "event", p) :
        p \in SteadyPayloads("A") \cup BaseInfoPayloads("A") \cup UnknownPayloads \cup OtherPayloads}
    \cup {ControlFrame("2"), Frame("42", "cmd", EmptyDict)}

----------------------------------------------------------------------------
(* The token *)

\* a token text: the number of its dot-separated segments, whether the second
\* one is base64, what its JSON is, and the exp entry of a JSON object
Token(id, segments, b64, json, exp_kind, exp) ==
    [id |-> id, segments |-> segments, b64 |-> b64, json |-> json,
     exp_kind |-> exp_kind, exp |-> exp]

\* timedelta(hours=1) of _token_needs_refresh
RefreshLead == 1

UnknownExpiry == [known |-> FALSE, at |-> 0]

\* _get_token_expiry(token): every failure is caught and gives None
GetTokenExpiry(token) ==
    IF token.segments < 2 THEN UnknownExpiry                \* IndexError
    ELSE IF token.b64 # "ok" THEN UnknownExpiry             \* binascii.Error
    ELSE IF token.json = "invalid" THEN UnknownExpiry       \* JSONDecodeError
    ELSE IF token.json # "object" THEN UnknownExpiry        \* no 'exp' in it, or TypeError
    ELSE IF token.exp_kind = "absent" THEN UnknownExpiry
    ELSE IF token.exp_kind # "number" THEN UnknownExpiry    \* fromtimestamp raises
    ELSE [known |-> TRUE, at |-> token.exp]

\* the token is refreshed only once it has expired
TokenNeedsRefreshLate(expiry, now) == expiry.known /\ now >= expiry.at

\* _token_needs_refresh() at the time now, for self.token_expiry
TokenNeedsRefresh(expiry, now) == expiry.known /\ now + RefreshLead >= expiry.at

\* the token of a client that connects: it expires at hour 2
DefaultToken == Token(1, 3, "ok", "object", "number", 2)

\* the tokens the REST collaborator may issue
TokensWith(id) ==
    {Token(id, 1, "ok", "object", "number", 2),
     Token(id, 3, "bad", "object", "number", 2),
     Token(id, 3, "ok", "invalid", "number", 2),
     Token(id, 3, "ok", "array", "number", 2),
     Token(id, 3, "ok", "object", "absent", 2),
     Token(id, 3, "ok", "object", "text", 2),
     Token(id, 3, "ok", "object", "number", 2),
     Token(id, 3, "ok", "object", "number", 3)}

\* _handle_connection with a token near expiry: whether it asks the
\* coordinator for a refresh
SignalsRefreshAgain(stop, near, in_progress) == ~stop /\ near
SignalsRefresh(stop, near, in_progress) == ~stop /\ near /\ ~in_progress

\* _handle_connection after the token check: return, or go on to connect
AfterTokenCheckConnects(near) == "connect"
AfterTokenCheck(near) == IF near THEN "backoff" ELSE "connect"

----------------------------------------------------------------------------
(* Timing helpers of the client *)

Min(a, b) == IF a < b THEN a ELSE b
Max(a, b) == IF a > b THEN a ELSE b

\* recv_timeout of _process_messages
RecvTimeout(ping) == IF ping = 0 THEN 30 ELSE Max(ping, 5)

\* self._reconnect_interval as constructed, and after a successful connect
InitialReconnectInterval == 10
ConnectedReconnectInterval == 5
\* self._max_reconnect_interval
MaxReconnectInterval == 600
\* check_interval of the watchdog when no ping interval is known
WatchdogCheckInterval == 5
\* a Python float holds magnitudes below 2^1024
FloatMaxExponent == 1024

\* pingInterval values the server declares, in seconds
PingIntervals == {8, 25}

\* random.uniform(0.8, 1.2) in percent: both ends and the middle
JitterPct == {80, 100, 120}

\* time_since_last_message > ping_interval * 1.2
Stale(elapsed, ping) == elapsed * 10 > ping * 12

\* check_interval of _connection_watchdog
CheckInterval(ping) ==
    IF ping = 0 THEN WatchdogCheckInterval ELSE Min(ping \div 2, WatchdogCheckInterval)

\* whether a watchdog check closes the socket
WatchdogNeverCloses(ws, elapsed, ping) == FALSE
WatchdogCloses(ws, elapsed, ping) ==
    ws = "open" /\ elapsed >= 0 /\ ping # 0 /\ Stale(elapsed, ping)

\* self.websocket after a watchdog check: the close is requested on the socket
\* the handle refers to, the handle itself is not assigned
SocketDroppedByWatchdog(ws, closes) == IF closes THEN "None" ELSE ws
SocketAfterWatchdog(ws, closes) == IF closes THEN "closed" ELSE ws

\* int.bit_length()
BitLength(m) == CHOOSE n \in 1..16 : 2^(n - 1) <= m /\ m < 2^n

\* reconnect_interval * 2 ** (attempts - 1) is an int; multiplying it by the
\* float jitter raises OverflowError once it reaches 2^1024
FloatOverflows(interval, attempts) ==
    BitLength(interval) + (attempts - 1) > FloatMaxExponent

\* backoff_time in whole seconds; from 2 ** 8 on the product exceeds the maximum
BackoffTimeNoBase(interval, attempts, pct) ==
    IF attempts - 1 >= 8 THEN MaxReconnectInterval
    ELSE Min((2^(attempts - 1) * pct) \div 100, MaxReconnectInterval)
BackoffTimeUncapped(interval, attempts, pct) ==
    (interval * 2^(Min(attempts - 1, 8)) * pct) \div 100
BackoffTime(interval, attempts, pct) ==
    IF attempts - 1 >= 8 THEN MaxReconnectInterval
    ELSE Min((interval * 2^(attempts - 1) * pct) \div 100, MaxReconnectInterval)

\* a time that is measured (not -1) after d more seconds, counted up to cap
Later(t, d, cap) == IF t < 0 THEN t ELSE Min(t + d, cap)

\* seconds left to the next periodic check after d seconds
PhaseAfter(left, d, period) == (left + (period - (d % period))) % period

----------------------------------------------------------------------------
(* What a step puts out, and the discovery-timeout tasks *)

\* a step that sends no frame and calls nothing back
NoOutput == sent' = << >> /\ called' = << >>

\* self._max_scan_retries
MaxScanRetries == 3

\* the frames _handle_message sends in answer to a frame
ReplyToAll(class) == << <<"3">> >>
Reply(class) == IF class = "ping" THEN << <<"3">> >> ELSE << >>

\* a _monitor_base_info_timeout task in its first sleep
WaitingMonitor == [pc |-> "wait", todo |-> << >>, cur |-> ""]

\* asyncio.create_task(self._monitor_base_info_timeout())
AddMonitor(ms, m) == IF BagCardinality(ms) < MaxMonitors THEN ms (+) SetToBag({m}) ELSE ms

\* the task m has ended, or has gone to sleep again
EndMonitor(ms, m) == ms (-) SetToBag({m})

\* the orders in which a for loop may visit a set
Orders(S) == {o \in [1..Cardinality(S) -> S] : \A i, j \in DOMAIN o : o[i] = o[j] => i = j}

----------------------------------------------------------------------------
(* _process_messages: one frame received and handled by _handle_message *)

StreamRecv(msg) ==
    /\ pc = "stream"
    /\ websocket = "open"
    /\ ~stopping
    /\ msg.name = "event" => frames_seen < MaxFrames
    /\ LET class == Classify(msg)
           merged == IF class = "merge" THEN MergeEvent(device_data, msg.payload)
                     ELSE [data |-> device_data, tasks |-> << >>, notify |-> 0]
       IN /\ time_since_last_message' = 0
          /\ websocket' = IF class \in {"disconnect", "close", "raise"} THEN "closed" ELSE websocket
          /\ pc' = IF class = "raise" THEN "backoff" ELSE pc
          /\ recv_left' = IF class = "raise" THEN 0 ELSE RecvTimeout(ping_interval)
          /\ devices_with_base_info' =
                IF class \in {"merge", "raise"} /\ Has(msg.payload, "base_info")
                THEN devices_with_base_info \cup {EventSerial(msg.payload)}
                ELSE devices_with_base_info
          /\ device_data' = merged.data
          /\ fetch_tasks' = fetch_tasks \o merged.tasks
          /\ notified' = notified + merged.notify
          /\ UNCHANGED <<devices, async_stop>>
          /\ last_msg' = msg
          /\ last_update' = IF class = "merge" THEN DeviceUpdateOf(msg.payload, device_data)
                            ELSE EmptyDict
          /\ merged_frames' = merged_frames + (IF class = "merge" /\ merged.notify > 0 THEN 1 ELSE 0)
          /\ frames_seen' = frames_seen + (IF msg.name = "event" THEN 1 ELSE 0)
          /\ sent' = Reply(class)
          /\ called' = IF class = "merge" THEN << <<"update", EventSerial(msg.payload)>> >>
                       ELSE << >>
    /\ UNCHANGED <<tokVars, monVars, taskVars, watchdog, stop_pc, stopping, reconnect_attempts, reconnect_interval,
                   ping_interval, scan_index, token_near_expiry, sleep_left, watchdog_left,
                   fetches_merged, since_close, last_backoff>>

----------------------------------------------------------------------------
(* Coordinator: a metadata fetch task ends *)

Remove(seq, i) == [j \in 1..(Len(seq) - 1) |-> IF j < i THEN seq[j] ELSE seq[j + 1]]

\* _fetch_sensor_metadata / _fetch_wifi_state: on a successful response for a
\* device that has a record, store the result and notify; otherwise only log
FetchDone(i, ok) ==
    /\ i \in DOMAIN fetch_tasks
    /\ LET task == fetch_tasks[i]
           stores == ok /\ task.serial \in DOMAIN device_data
       IN /\ device_data' =
                IF stores
                THEN Put(device_data, task.serial,
                         Put(device_data[task.serial],
                             IF task.kind = "sensor_metadata" THEN "sensor_metadata" ELSE "wifi_info",
                             "fetched"))
                ELSE device_data
          /\ notified' = notified + (IF stores THEN 1 ELSE 0)
          /\ fetches_merged' = fetches_merged + (IF stores THEN 1 ELSE 0)
    /\ fetch_tasks' = Remove(fetch_tasks, i)
    /\ UNCHANGED <<devices, async_stop>>
    /\ NoOutput
    /\ UNCHANGED <<tokVars, monVars, taskVars, clientVars, timerVars, last_msg, last_update, merged_frames, frames_seen,
                   since_close, last_backoff>>

----------------------------------------------------------------------------
(* Specification of the merge: a connection that streams *)

\* the client after a first handshake with pingInterval 25000, the coordinator
\* as constructed
InitStreaming ==
    /\ device_data = EmptyDict
    /\ notified = 0
    /\ fetch_tasks = << >>
    /\ devices = Devices
    /\ async_stop = "idle"
    /\ devices_with_base_info = {}
    /\ pc = "stream"
    /\ watchdog = "running"
    /\ stop_pc = "idle"
    /\ websocket = "open"
    /\ stopping = FALSE
    /\ reconnect_attempts = 0
    /\ reconnect_interval = 5
    /\ ping_interval = 25
    /\ time_since_last_message = 0
    /\ scan_index = 1
    /\ token_near_expiry = FALSE
    /\ sleep_left = 0
    /\ recv_left = 25
    /\ watchdog_left = 5
    /\ last_msg = NoFrame
    /\ last_update = EmptyDict
    /\ merged_frames = 0
    /\ fetches_merged = 0
    /\ frames_seen = 0
    /\ since_close = -1
    /\ ws_task = "task"
    /\ watchdog_task = "task"
    /\ lost_tasks = 0
    /\ lost_watchdogs = 0
    /\ stop_calls = 0
    /\ raced = FALSE
    /\ monitors = SetToBag({WaitingMonitor})
    /\ scan_retry_count = [serial \in DeviceSerials |-> 0]
    /\ synth_calls = 0
    /\ sent = << >>
    /\ called = << >>
    /\ auth_token = DefaultToken
    /\ clock = 0
    /\ token_refresh_in_progress = FALSE
    /\ rejected = {}
    /\ signalled = {}
    /\ last_backoff = 0

MergeNext ==
    \/ \E msg \in MergeFrames : StreamRecv(msg)
    \/ \E i \in 1..Len(fetch_tasks), ok \in BOOLEAN : FetchDone(i, ok)

SpecMerge == InitStreaming /\ [][MergeNext]_vars

----------------------------------------------------------------------------
(* WebSocketClient: start and stop *)

\* `self._ws_task and not self._ws_task.done()`, and the same for the watchdog
WsLive == ws_task = "task" /\ pc \notin {"none", "done"}
WdLiveNever == FALSE
WdLive == watchdog_task = "task" /\ watchdog \notin {"none", "done"}

\* start(): the flag is cleared, and a watchdog and a connection task are
\* created where self holds none or holds one that is done. A live task that
\* self no longer names goes on running beside the new one.
Start ==
    /\ stopping' = FALSE
    /\ stop_calls' = 0
    /\ raced' = (raced \/ stop_pc \notin {"idle", "requested", "stopped"})
    /\ stop_pc' = IF stop_pc = "stopped" THEN "idle" ELSE stop_pc
    /\ IF ws_task = "None" \/ pc = "done"
       THEN /\ pc' = "loop"
            /\ ws_task' = "task"
            /\ lost_tasks' = lost_tasks + (IF pc \in {"none", "done"} THEN 0 ELSE 1)
            /\ sleep_left' = 0
            /\ recv_left' = 0
       ELSE UNCHANGED <<pc, ws_task, lost_tasks, sleep_left, recv_left>>
    /\ IF watchdog_task = "None" \/ watchdog = "done"
       THEN /\ watchdog' = "running"
            /\ watchdog_task' = "task"
            /\ lost_watchdogs' = lost_watchdogs + (IF watchdog \in {"none", "done"} THEN 0 ELSE 1)
            /\ watchdog_left' = 0
       ELSE UNCHANGED <<watchdog, watchdog_task, lost_watchdogs, watchdog_left>>
    /\ lost_tasks' <= MaxLost
    /\ lost_watchdogs' <= MaxLost
    /\ NoOutput
    /\ UNCHANGED <<tokVars, monVars, coordVars, devices_with_base_info, websocket,
                   reconnect_attempts, reconnect_interval, ping_interval,
                   time_since_last_message, scan_index, token_near_expiry, histVars>>

\* _cleanup_tasks from the cancellation of the watchdog on
CancelWatchdog ==
    IF WdLive
    THEN watchdog' = "cancelled" /\ stop_pc' = "await_wd"
    ELSE watchdog' = watchdog /\ stop_pc' = "stopped"

\* _cleanup_tasks from the cancellation of the connection task on: without a
\* live task it goes straight on to the watchdog
CancelTask ==
    IF WsLive
    THEN pc' = "cancelled" /\ stop_pc' = "await_ws" /\ watchdog' = watchdog
    ELSE pc' = pc /\ CancelWatchdog

\* stop() with the flag clear, as the client sees it: the flag is set; with a
\* socket, _cleanup_tasks first awaits its close, and without one it goes on
\* at once to cancel the tasks
StopEnter ==
    /\ stop_pc \in {"idle", "requested", "stopped"}
    /\ pc # "none"
    /\ ~stopping
    /\ stop_calls < MaxStopCalls
    /\ stopping' = TRUE
    /\ stop_calls' = stop_calls + 1
    /\ websocket' = IF websocket = "open" THEN "closed" ELSE websocket
    /\ IF websocket = "None"
       THEN CancelTask
       ELSE stop_pc' = "closing" /\ UNCHANGED <<pc, watchdog>>
    /\ sleep_left' = IF pc' = pc THEN sleep_left ELSE 0
    /\ recv_left' = IF pc' = pc THEN recv_left ELSE 0
    /\ watchdog_left' = IF watchdog' = watchdog THEN watchdog_left ELSE 0
    /\ token_refresh_in_progress' = (token_refresh_in_progress \/ stop_pc = "requested")
    /\ NoOutput
    /\ UNCHANGED <<auth_token, clock, rejected, signalled, monVars,
                   devices_with_base_info, reconnect_attempts,
                   reconnect_interval, ping_interval, time_since_last_message, scan_index,
                   token_near_expiry, ws_task, watchdog_task, lost_tasks, lost_watchdogs,
                   raced, histVars>>

\* stop() with the flag clear, called by the token refresh or from outside
StopBegin == StopEnter /\ UNCHANGED coordVars

\* stop() with the flag set returns at once
StopAgain ==
    /\ stopping
    /\ stop_calls < MaxStopCalls
    /\ stop_calls' = stop_calls + 1
    /\ NoOutput
    /\ UNCHANGED <<tokVars, monVars, coordVars, clientVars, ws_task, watchdog_task, lost_tasks, lost_watchdogs,
                   raced, timerVars, histVars>>

\* _cleanup_tasks after the socket's close: the handle is cleared and the
\* connection task cancelled
StopCancelTask ==
    /\ stop_pc = "closing"
    /\ websocket' = "None"
    /\ CancelTask
    /\ sleep_left' = IF pc' = pc THEN sleep_left ELSE 0
    /\ recv_left' = IF pc' = pc THEN recv_left ELSE 0
    /\ watchdog_left' = IF watchdog' = watchdog THEN watchdog_left ELSE 0
    /\ NoOutput
    /\ UNCHANGED <<tokVars, monVars, coordVars, devices_with_base_info, stopping, reconnect_attempts,
                   reconnect_interval, ping_interval, time_since_last_message, scan_index,
                   token_near_expiry, taskVars, histVars>>

\* the cancelled connection task ends
TaskCancelled ==
    /\ pc = "cancelled"
    /\ pc' = "done"
    /\ stop_pc' = IF stop_pc = "await_ws" THEN "resume_ws" ELSE stop_pc
    /\ NoOutput
    /\ UNCHANGED <<tokVars, monVars, coordVars, devices_with_base_info, watchdog, websocket, stopping,
                   reconnect_attempts, reconnect_interval, ping_interval,
                   time_since_last_message, scan_index, token_near_expiry, taskVars,
                   timerVars, histVars>>

\* _cleanup_tasks after the await of the connection task: the reference is
\* cleared, whatever it names by now, and the watchdog cancelled
StopCancelWatchdog ==
    /\ stop_pc = "resume_ws"
    /\ ws_task' = "None"
    /\ CancelWatchdog
    /\ watchdog_left' = IF watchdog' = watchdog THEN watchdog_left ELSE 0
    /\ NoOutput
    /\ UNCHANGED <<tokVars, monVars, coordVars, devices_with_base_info, pc, websocket, stopping,
                   reconnect_attempts, reconnect_interval, ping_interval,
                   time_since_last_message, scan_index, token_near_expiry, watchdog_task,
                   lost_tasks, lost_watchdogs, stop_calls, raced, sleep_left, recv_left,
                   histVars>>

\* the cancelled watchdog ends
WatchdogCancelled ==
    /\ watchdog = "cancelled"
    /\ watchdog' = "done"
    /\ stop_pc' = IF stop_pc = "await_wd" THEN "resume_wd" ELSE stop_pc
    /\ NoOutput
    /\ UNCHANGED <<tokVars, monVars, coordVars, devices_with_base_info, pc, websocket, stopping,
                   reconnect_attempts, reconnect_interval, ping_interval,
                   time_since_last_message, scan_index, token_near_expiry, taskVars,
                   timerVars, histVars>>

\* _cleanup_tasks after the await of the watchdog: its reference is cleared
StopFinish ==
    /\ stop_pc = "resume_wd"
    /\ stop_pc' = "stopped"
    /\ watchdog_task' = "None"
    /\ NoOutput
    /\ UNCHANGED <<tokVars, monVars, coordVars, devices_with_base_info, pc, watchdog, websocket, stopping,
                   reconnect_attempts, reconnect_interval, ping_interval,
                   time_since_last_message, scan_index, token_near_expiry, ws_task,
                   lost_tasks, lost_watchdogs, stop_calls, raced, timerVars, histVars>>

\* the token comes within an hour of its expiry
HourPasses ==
    /\ clock < MaxClock
    /\ clock' = clock + 1
    /\ token_near_expiry' = TokenNeedsRefresh(GetTokenExpiry(auth_token), clock')
    /\ NoOutput
    /\ UNCHANGED <<auth_token, token_refresh_in_progress, rejected, signalled, monVars,
                   taskVars, coordVars, devices_with_base_info, pc, watchdog, stop_pc,
                   websocket, stopping, reconnect_attempts, reconnect_interval, ping_interval,
                   time_since_last_message, scan_index, timerVars, histVars>>

\* the hour passes that brings the token within the refresh lead of its expiry
TokenNearsExpiry ==
    /\ ~token_near_expiry
    /\ HourPasses
    /\ token_near_expiry'

----------------------------------------------------------------------------
(* _websocket_handler and _handle_connection *)

\* the while test, and _handle_connection up to websockets.connect; with a
\* token near its expiry it asks the coordinator for a refresh and returns
LoopTop ==
    /\ pc = "loop"
    /\ pc' = IF stopping THEN "done" ELSE AfterTokenCheck(token_near_expiry)
    /\ stop_pc' = IF SignalsRefresh(stopping, token_near_expiry, token_refresh_in_progress)
                     /\ stop_pc = "idle"
                  THEN "requested" ELSE stop_pc
    /\ called' = IF SignalsRefresh(stopping, token_near_expiry, token_refresh_in_progress)
                 THEN << <<"token_refresh_needed">> >> ELSE << >>
    /\ signalled' = IF SignalsRefresh(stopping, token_near_expiry, token_refresh_in_progress)
                    THEN signalled \cup {auth_token.id} ELSE signalled
    /\ sent' = << >>
    /\ websocket' = IF stopping \/ token_near_expiry THEN websocket ELSE "None"
    /\ last_msg' = IF stopping \/ token_near_expiry THEN last_msg ELSE NoFrame
    /\ last_update' = IF stopping \/ token_near_expiry THEN last_update ELSE EmptyDict
    /\ UNCHANGED <<auth_token, clock, token_refresh_in_progress, rejected, monVars, taskVars, coordVars, devices_with_base_info, watchdog, stopping,
                   reconnect_attempts, reconnect_interval, ping_interval,
                   time_since_last_message, scan_index, token_near_expiry, timerVars,
                   merged_frames, fetches_merged, frames_seen, since_close, last_backoff>>

\* websockets.connect returns a socket, or raises
Connect(ok) ==
    /\ pc = "connect"
    /\ pc' = IF ok THEN "open" ELSE "backoff"
    /\ websocket' = IF ok THEN "open" ELSE websocket
    /\ reconnect_attempts' = IF ok THEN 0 ELSE reconnect_attempts
    /\ reconnect_interval' = IF ok THEN ConnectedReconnectInterval ELSE reconnect_interval
    /\ since_close' = -1
    /\ NoOutput
    /\ UNCHANGED <<tokVars, monVars, taskVars, coordVars, devices_with_base_info, watchdog, stop_pc, stopping,
                   ping_interval, time_since_last_message, scan_index, token_near_expiry,
                   timerVars, last_msg, last_update, merged_frames, fetches_merged,
                   frames_seen, last_backoff>>

\* one awaited frame of _handle_initial_connection and _setup_connection: the
\* open frame, the login, subscribe and scan responses. It fails when the frame
\* is not the expected one or the socket is closed.
HandshakeFrame(ok, ping, refused) ==
    /\ pc \in {"open", "login", "subscribe", "scan"}
    /\ rejected' = IF refused THEN rejected \cup {auth_token.id} ELSE rejected
    /\ LET good == ok /\ websocket = "open"
           last == pc = "scan" /\ scan_index = Cardinality(DeviceSerials)
       IN /\ pc' = CASE ~good -> "backoff"
                     [] pc = "open" -> "login"
                     [] pc = "login" -> "subscribe"
                     [] pc = "subscribe" -> "scan"
                     [] OTHER -> IF last THEN "stream" ELSE "scan"
          /\ websocket' = IF good THEN websocket
                          ELSE IF pc = "open" /\ websocket # "None" THEN "closed" ELSE "None"
          /\ ping_interval' = IF good /\ pc = "open" THEN ping ELSE ping_interval
          /\ scan_index' = IF good /\ pc = "scan" /\ ~last THEN scan_index + 1 ELSE 1
          /\ time_since_last_message' = IF good /\ last THEN 0 ELSE time_since_last_message
          /\ recv_left' = IF good /\ last THEN RecvTimeout(ping_interval) ELSE recv_left
          /\ sent' = CASE ~good -> << >>
                       [] pc = "open" -> << <<"login", auth_token.id>> >>
                       [] pc = "login" -> << <<"subscribe">> >>
                       [] pc = "subscribe" -> << <<"scan", DeviceSerialList[1]>> >>
                       [] OTHER -> IF last THEN << >> ELSE << <<"scan", DeviceSerialList[scan_index + 1]>> >>
          /\ monitors' = IF good /\ last THEN AddMonitor(monitors, WaitingMonitor) ELSE monitors
    /\ called' = << >>
    /\ UNCHANGED <<scan_retry_count, synth_calls>>
    /\ UNCHANGED <<auth_token, clock, token_refresh_in_progress, signalled>>
    /\ UNCHANGED <<taskVars, coordVars, devices_with_base_info, watchdog, stop_pc, stopping,
                   reconnect_attempts, reconnect_interval, token_near_expiry, sleep_left,
                   watchdog_left, histVars>>

Handshake(ok, ping) == HandshakeFrame(ok, ping, FALSE)

\* base_info events of the configured devices that may arrive while a response
\* of the handshake is awaited
HandshakeEvents ==
    {Frame("42", "event", [base_info |-> [serial_number |-> serial], online |-> "True"]) :
        serial \in DeviceSerials}

\* the recv that awaits the login, subscribe or scan response returns an event
\* frame: it is taken for the response (it carries no "error" or "exception",
\* and the framer does not ask for a close) and is handled no further
HandshakeReadsEvent(msg) ==
    /\ pc \in {"login", "subscribe", "scan"}
    /\ websocket = "open"
    /\ msg.name = "event"
    /\ Handshake(TRUE, ping_interval)

\* the login response carries "error" or "exception": the socket is closed,
\* the handle cleared and the ValueError raised to _websocket_handler
LoginRejected ==
    /\ pc = "login"
    /\ websocket = "open"
    /\ HandshakeFrame(FALSE, ping_interval, TRUE)

\* the server or the network drops the connection
ConnectionLost ==
    /\ pc \in {"open", "login", "subscribe", "scan", "stream"}
    /\ websocket = "open"
    /\ websocket' = "closed"
    /\ NoOutput
    /\ UNCHANGED <<tokVars, monVars, taskVars, coordVars, devices_with_base_info, pc, watchdog, stop_pc, stopping,
                   reconnect_attempts, reconnect_interval, ping_interval,
                   time_since_last_message, scan_index, token_near_expiry, timerVars, histVars>>

\* _process_messages: the wait_for times out
StreamTimeout ==
    /\ pc = "stream"
    /\ websocket = "open"
    /\ recv_left = 0
    /\ LET stale == /\ time_since_last_message >= 0
                    /\ ping_interval # 0
                    /\ Stale(time_since_last_message, ping_interval)
       IN /\ pc' = IF stale THEN "backoff" ELSE pc
          /\ websocket' = IF stale THEN "closed" ELSE websocket
          /\ recv_left' = IF stale THEN 0 ELSE RecvTimeout(ping_interval)
    /\ NoOutput
    /\ UNCHANGED <<tokVars, monVars, taskVars, coordVars, devices_with_base_info, watchdog, stop_pc, stopping,
                   reconnect_attempts, reconnect_interval, ping_interval,
                   time_since_last_message, scan_index, token_near_expiry, sleep_left,
                   watchdog_left, histVars>>

\* _process_messages: recv on a socket that is closed or gone raises, and the loop returns
StreamEnds ==
    /\ pc = "stream"
    /\ websocket # "open"
    /\ pc' = "backoff"
    /\ recv_left' = 0
    /\ NoOutput
    /\ UNCHANGED <<tokVars, monVars, taskVars, coordVars, devices_with_base_info, watchdog, stop_pc, websocket, stopping,
                   reconnect_attempts, reconnect_interval, ping_interval,
                   time_since_last_message, scan_index, token_near_expiry, sleep_left,
                   watchdog_left, histVars>>

\* _process_messages: the loop returns when it finds the client stopping, and
\* leaving the connection's context closes the socket
StreamStops ==
    /\ pc = "stream"
    /\ stopping
    /\ pc' = "backoff"
    /\ websocket' = IF websocket = "open" THEN "closed" ELSE websocket
    /\ recv_left' = 0
    /\ NoOutput
    /\ UNCHANGED <<tokVars, monVars, coordVars, taskVars, devices_with_base_info, watchdog, stop_pc, stopping,
                   reconnect_attempts, reconnect_interval, ping_interval,
                   time_since_last_message, scan_index, token_near_expiry, sleep_left,
                   watchdog_left, histVars>>

\* _websocket_handler after the try: return when stopping, else count the
\* attempt and compute the backoff, which raises when the product overflows
Backoff(pct) ==
    /\ pc = "backoff"
    /\ reconnect_attempts < MaxAttempts
    /\ LET overflow == FloatOverflows(reconnect_interval, reconnect_attempts + 1)
           backoff_time == BackoffTime(reconnect_interval, reconnect_attempts + 1, pct)
       IN /\ pc' = IF stopping \/ overflow THEN "done" ELSE "sleep"
          /\ reconnect_attempts' = IF stopping THEN reconnect_attempts ELSE reconnect_attempts + 1
          /\ sleep_left' = IF stopping \/ overflow THEN sleep_left ELSE backoff_time
          /\ last_backoff' = IF stopping \/ overflow THEN last_backoff ELSE backoff_time
    /\ NoOutput
    /\ UNCHANGED <<tokVars, monVars, taskVars, coordVars, devices_with_base_info, watchdog, stop_pc, websocket, stopping,
                   reconnect_interval, ping_interval, time_since_last_message, scan_index,
                   token_near_expiry, recv_left, watchdog_left, last_msg, last_update,
                   merged_frames, fetches_merged, frames_seen, since_close>>

\* asyncio.sleep(backoff_time) returns: the whole backoff has passed. A token
\* refresh that was asked for runs, and stops the client, before that.
BackoffElapsed ==
    /\ pc = "sleep"
    /\ stop_pc # "requested"
    /\ pc' = "loop"
    /\ sleep_left' = 0
    /\ time_since_last_message' = Later(time_since_last_message, sleep_left, ElapsedCap)
    /\ since_close' = Later(since_close, sleep_left, SinceCap)
    /\ watchdog_left' = IF watchdog = "running"
                        THEN PhaseAfter(watchdog_left, sleep_left, CheckInterval(ping_interval))
                        ELSE watchdog_left
    /\ NoOutput
    /\ UNCHANGED <<tokVars, monVars, taskVars, coordVars, devices_with_base_info, watchdog, stop_pc, websocket, stopping,
                   reconnect_attempts, reconnect_interval, ping_interval, scan_index,
                   token_near_expiry, recv_left, last_msg, last_update, merged_frames,
                   fetches_merged, frames_seen, last_backoff>>

----------------------------------------------------------------------------
(* _connection_watchdog *)

\* one round of the watchdog loop: leave when stopping, else close a stale
\* socket and sleep for the check interval
Watchdog ==
    /\ watchdog = "running"
    /\ watchdog_left = 0
    /\ LET closes == ~stopping /\ WatchdogCloses(websocket, time_since_last_message, ping_interval)
       IN /\ websocket' = SocketAfterWatchdog(websocket, closes)
          /\ since_close' = IF closes THEN 0 ELSE since_close
    /\ watchdog' = IF stopping THEN "done" ELSE watchdog
    /\ watchdog_left' = IF stopping THEN 0 ELSE CheckInterval(ping_interval)
    /\ NoOutput
    /\ UNCHANGED <<tokVars, monVars, taskVars, coordVars, devices_with_base_info, pc, stop_pc, stopping, reconnect_attempts,
                   reconnect_interval, ping_interval, time_since_last_message, scan_index,
                   token_near_expiry, sleep_left, recv_left, last_msg, last_update,
                   merged_frames, fetches_merged, frames_seen, last_backoff>>

----------------------------------------------------------------------------
(* Time *)

\* a second passes while the read loop waits for a frame; no timer is overdue
Tick ==
    /\ pc = "stream"
    /\ websocket = "open"
    /\ recv_left > 0
    /\ watchdog = "running" => watchdog_left > 0
    /\ recv_left' = recv_left - 1
    /\ watchdog_left' = IF watchdog = "running" THEN watchdog_left - 1 ELSE watchdog_left
    /\ time_since_last_message' = Later(time_since_last_message, 1, ElapsedCap)
    /\ NoOutput
    /\ UNCHANGED <<tokVars, monVars, taskVars, coordVars, devices_with_base_info, pc, watchdog, stop_pc, websocket, stopping,
                   reconnect_attempts, reconnect_interval, ping_interval, scan_index,
                   token_near_expiry, sleep_left, histVars>>

----------------------------------------------------------------------------
(* Specification of the connection: from construction, with control frames *)

\* the frames of a connection that carry no device event
ConnFrames ==
    {ControlFrame("2"), ControlFrame("1"), ControlFrame("41"), Frame("42", "exception", EmptyDict)}

\* the client and the coordinator as constructed, the client with the token
\* tok at the hour now
Constructed(tok, now) ==
    /\ device_data = EmptyDict
    /\ notified = 0
    /\ fetch_tasks = << >>
    /\ devices = Devices
    /\ async_stop = "idle"
    /\ devices_with_base_info = {}
    /\ pc = "none"
    /\ watchdog = "none"
    /\ stop_pc = "idle"
    /\ websocket = "None"
    /\ stopping = FALSE
    /\ reconnect_attempts = 0
    /\ reconnect_interval = InitialReconnectInterval
    /\ ping_interval = 0
    /\ time_since_last_message = -1
    /\ scan_index = 1
    /\ token_near_expiry = TokenNeedsRefresh(GetTokenExpiry(tok), now)
    /\ auth_token = tok
    /\ clock = now
    /\ token_refresh_in_progress = FALSE
    /\ rejected = {}
    /\ signalled = {}
    /\ sleep_left = 0
    /\ recv_left = 0
    /\ watchdog_left = 0
    /\ last_msg = NoFrame
    /\ last_update = EmptyDict
    /\ merged_frames = 0
    /\ fetches_merged = 0
    /\ frames_seen = 0
    /\ since_close = -1
    /\ ws_task = "None"
    /\ watchdog_task = "None"
    /\ lost_tasks = 0
    /\ lost_watchdogs = 0
    /\ stop_calls = 0
    /\ raced = FALSE
    /\ monitors = EmptyBag
    /\ scan_retry_count = [serial \in DeviceSerials |-> 0]
    /\ synth_calls = 0
    /\ sent = << >>
    /\ called = << >>
    /\ last_backoff = 0

InitConn == Constructed(DefaultToken, 0)

\* the coordinator starts a client it has just built, or one that has no task
\* and no socket left, and never while a stop() is in progress
CoordinatorStart ==
    /\ stop_pc = "idle"
    /\ pc \in {"none", "done"}
    /\ websocket = "None"
    /\ Start

ConnNext ==
    \/ CoordinatorStart
    \/ StopBegin
    \/ StopCancelTask
    \/ TaskCancelled
    \/ StopCancelWatchdog
    \/ WatchdogCancelled
    \/ StopFinish
    \/ TokenNearsExpiry
    \/ LoopTop
    \/ \E ok \in BOOLEAN : Connect(ok)
    \/ \E ok \in BOOLEAN, ping \in PingIntervals : Handshake(ok, ping)
    \/ ConnectionLost
    \/ \E msg \in ConnFrames : StreamRecv(msg)
    \/ StreamTimeout
    \/ StreamEnds
    \/ StreamStops
    \/ \E pct \in JitterPct : Backoff(pct)
    \/ BackoffElapsed
    \/ Watchdog
    \/ Tick

SpecConn == InitConn /\ [][ConnNext]_vars

----------------------------------------------------------------------------
(* Specification of the life cycle: start() and stop() called at any time *)

LifeBackoff(pct) ==
    /\ reconnect_attempts < MaxLifeAttempts
    /\ Backoff(pct)

LifeNext ==
    \/ Start
    \/ StopBegin
    \/ StopAgain
    \/ StopCancelTask
    \/ TaskCancelled
    \/ StopCancelWatchdog
    \/ WatchdogCancelled
    \/ StopFinish
    \/ LoopTop
    \/ \E ok \in BOOLEAN : Connect(ok)
    \/ \E ok \in BOOLEAN : Handshake(ok, 25)
    \/ ConnectionLost
    \/ \E msg \in ConnFrames : StreamRecv(msg)
    \/ StreamEnds
    \/ StreamStops
    \/ LifeBackoff(100)
    \/ BackoffElapsed
    \/ Watchdog

SpecLife == InitConn /\ [][LifeNext]_vars

----------------------------------------------------------------------------
(* _monitor_base_info_timeout: the discovery-timeout tasks *)

\* the for loop from the serials in order up to its next sleep: every serial
\* whose retries are used up has its base_info synthesized by the coordinator
\* within the callback; the first serial with a retry left stops the run
RECURSIVE MonitorLoop(_, _, _)
MonitorLoop(order, counts, acc) ==
    IF order = << >> THEN acc
    ELSE IF counts[Head(order)] < MaxScanRetries
    THEN [acc EXCEPT !.pc = "retry", !.cur = Head(order), !.todo = Tail(order)]
    ELSE MonitorLoop(Tail(order), counts,
             [acc EXCEPT !.data = SynthesizeBaseInfo(@, Head(order)).data,
                         !.tasks = @ \o SynthesizeBaseInfo(acc.data, Head(order)).tasks,
                         !.notify = @ + SynthesizeBaseInfo(acc.data, Head(order)).notify,
                         !.calls = Append(@, <<"synthesize_base_info_needed", Head(order)>>)])

\* a task, the bag without it being ms, runs its loop over order
MonitorRun(ms, order) ==
    LET r == MonitorLoop(order, scan_retry_count,
                         [pc |-> "end", cur |-> "", todo |-> << >>, data |-> device_data,
                          tasks |-> << >>, notify |-> 0, calls |-> << >>])
    IN /\ synth_calls + Len(r.calls) <= MaxSynth
       /\ synth_calls' = synth_calls + Len(r.calls)
       /\ monitors' = IF r.pc = "end" THEN ms
                      ELSE ms (+) SetToBag({[pc |-> "retry", todo |-> r.todo, cur |-> r.cur]})
       /\ scan_retry_count' = IF r.pc = "end" THEN scan_retry_count
                              ELSE [scan_retry_count EXCEPT ![r.cur] = @ + 1]
       /\ device_data' = r.data
       /\ fetch_tasks' = fetch_tasks \o r.tasks
       /\ notified' = notified + r.notify
       /\ UNCHANGED <<devices, async_stop>>
       /\ called' = r.calls

\* the first sleep of self._base_info_timeout seconds is over: the task ends
\* if the client is stopping or has no socket, and else visits the serials
\* that have no base_info yet
MonitorWake(m, order) ==
    /\ BagIn(m, monitors)
    /\ m.pc = "wait"
    /\ order \in Orders(DeviceSerials \ devices_with_base_info)
    /\ IF stopping \/ websocket = "None"
       THEN /\ order = CHOOSE o \in Orders(DeviceSerials \ devices_with_base_info) : TRUE
            /\ monitors' = EndMonitor(monitors, m)
            /\ called' = << >>
            /\ UNCHANGED <<scan_retry_count, synth_calls, coordVars>>
       ELSE MonitorRun(EndMonitor(monitors, m), order)
    /\ sent' = << >>
    /\ UNCHANGED <<tokVars, clientVars, taskVars, timerVars, histVars>>

\* the backoff sleep of a retry is over: the scan is sent again and a new
\* task watches for its answer, unless the client is stopping or has no
\* socket; a send that fails is logged; the loop goes on
MonitorScan(m) ==
    /\ BagIn(m, monitors)
    /\ m.pc = "retry"
    /\ IF websocket = "open" /\ ~stopping
       THEN /\ sent' = << <<"scan", m.cur>> >>
            /\ MonitorRun(AddMonitor(EndMonitor(monitors, m), WaitingMonitor), m.todo)
       ELSE /\ sent' = << >>
            /\ MonitorRun(EndMonitor(monitors, m), m.todo)
    /\ UNCHANGED <<tokVars, clientVars, taskVars, timerVars, histVars>>

----------------------------------------------------------------------------
(* Specification of the discovery: a streaming connection, its discovery-
   timeout tasks, and stop() *)

\* base_info events of device A, and a ping
DiscoveryFrames ==
    {ControlFrame("2"),
     Frame("42", "event", [serial_number |-> "A", base_info |-> [serial_number |-> "A"]])}

DiscoveryNext ==
    \/ \E m \in BagToSet(monitors), order \in Orders(DeviceSerials \ devices_with_base_info) :
          MonitorWake(m, order)
    \/ \E m \in BagToSet(monitors) : MonitorScan(m)
    \/ \E msg \in DiscoveryFrames : StreamRecv(msg)
    \/ StopBegin
    \/ StopCancelTask
    \/ TaskCancelled
    \/ StopCancelWatchdog
    \/ WatchdogCancelled
    \/ StopFinish

SpecDiscovery == InitStreaming /\ [][DiscoveryNext]_vars

----------------------------------------------------------------------------
(* Coordinator: _handle_token_refresh, and the specification of the token *)

\* _setup_websocket without a client and with devices: a client is built
\* with the token tok and started, and the coordinator holds it from now on
NewClient(tok) ==
    /\ auth_token' = tok
    /\ token_near_expiry' = TokenNeedsRefresh(GetTokenExpiry(tok), clock)
    /\ token_refresh_in_progress' = FALSE
    /\ devices_with_base_info' = {}
    /\ pc' = "loop"
    /\ watchdog' = "running"
    /\ stop_pc' = "idle"
    /\ websocket' = "None"
    /\ stopping' = FALSE
    /\ reconnect_attempts' = 0
    /\ reconnect_interval' = InitialReconnectInterval
    /\ ping_interval' = 0
    /\ time_since_last_message' = -1
    /\ scan_index' = 1
    /\ ws_task' = "task"
    /\ watchdog_task' = "task"
    /\ lost_tasks' = 0
    /\ lost_watchdogs' = 0
    /\ stop_calls' = 0
    /\ raced' = FALSE
    /\ monitors' = EmptyBag
    /\ scan_retry_count' = [serial \in DeviceSerials |-> 0]
    /\ since_close' = -1
    /\ last_backoff' = 0

\* _handle_token_refresh once its stop() has returned: the client is dropped
\* and _authenticate awaited. If it fails, or if the coordinator has no
\* devices by then, no client is left; else _setup_websocket builds a client
\* with the new token and starts it. The discovery-timeout tasks of the
\* dropped client are followed no further.
RefreshAuth(ok, tok) ==
    /\ stop_pc = "stopped"
    /\ token_refresh_in_progress
    /\ IF ok /\ DOMAIN devices # {}
       THEN /\ auth_token.id < MaxTokens
            /\ tok \in TokensWith(auth_token.id + 1)
            /\ NewClient(tok)
       ELSE /\ tok = auth_token
            /\ stop_pc' = "dropped"
            /\ UNCHANGED <<auth_token, token_near_expiry, token_refresh_in_progress,
                           devices_with_base_info, pc, watchdog, websocket, stopping,
                           reconnect_attempts, reconnect_interval, ping_interval,
                           time_since_last_message, scan_index, taskVars, monitors,
                           scan_retry_count, since_close, last_backoff>>
    /\ NoOutput
    /\ UNCHANGED <<clock, rejected, signalled, synth_calls, coordVars, timerVars, last_msg,
                   last_update, merged_frames, fetches_merged, frames_seen>>

\* a client built with any token the collaborator may issue, at hour 0 or 1
InitToken == \E tok \in TokensWith(1), now \in 0..1 : Constructed(tok, now)

TokenNext ==
    \/ CoordinatorStart
    \/ HourPasses
    \/ LoopTop
    \/ \E ok \in BOOLEAN : Connect(ok)
    \/ \E ok \in BOOLEAN : Handshake(ok, 25)
    \/ LoginRejected
    \/ ConnectionLost
    \/ StreamRecv(ControlFrame("2"))
    \/ StreamEnds
    \/ StreamStops
    \/ LifeBackoff(100)
    \/ BackoffElapsed
    \/ StopBegin
    \/ StopCancelTask
    \/ TaskCancelled
    \/ StopCancelWatchdog
    \/ WatchdogCancelled
    \/ StopFinish
    \/ \E ok \in BOOLEAN, tok \in TokensWith(auth_token.id + 1) \cup {auth_token} :
          RefreshAuth(ok, tok)

SpecToken == InitToken /\ [][TokenNext]_vars

----------------------------------------------------------------------------
(* Specification of the framing: a streaming connection that receives frames
   of every kind, well formed or not, and the connection cycle that follows
   when the socket is closed *)

MalformedShapes ==
    {"no comma", "invalid json", "not an array", "array of 1", "array of 3",
     "exception, payload not an object"}

\* frames that are not a well-formed event of the devices namespace
MalformedFrames ==
    {Malformed(shape) : shape \in MalformedShapes}
    \cup {ControlFrame("3"), ControlFrame("9"),
          Frame("42/other", "event", [serial_number |-> "A", online |-> "True"])}

\* exception payloads that carry the close code of a normal closure
NormalClosurePayloads ==
    {[status |-> "error", message |-> "closed", code |-> c] : c \in {"1000", "1005"}}
    \cup {[message |-> "closed", code |-> "1000"]}

ForbiddenPayloads ==
    {[status |-> "error", message |-> "Forbidden resource"],
     [status |-> "error", message |-> "Forbidden resource", code |-> "1000"]}

OtherExceptionPayloads ==
    {EmptyDict, [status |-> "error", message |-> "closed", code |-> "1006"],
     [status |-> "fail", message |-> "Forbidden resource"]}

ExceptionFrames ==
    {Frame("42", "exception", p) :
        p \in NormalClosurePayloads \cup ForbiddenPayloads \cup OtherExceptionPayloads}

FramerFrames ==
    MalformedFrames \cup ExceptionFrames
    \cup {ControlFrame(c) : c \in {"2", "1", "0", "40", "41"}}
    \cup {Frame("42", "cmd", EmptyDict),
          Frame("42", "event", [serial_number |-> "A", online |-> "True",
                                readings |-> << Onboard("21") >>]),
          Frame("42", "event", [serial_number |-> "A", online |-> "False"])}

FramerNext ==
    \/ \E msg \in FramerFrames : StreamRecv(msg)
    \/ ConnectionLost
    \/ StreamEnds
    \/ \E pct \in JitterPct : LifeBackoff(pct)
    \/ BackoffElapsed
    \/ LoopTop
    \/ \E ok \in BOOLEAN : Connect(ok)
    \/ \E ok \in BOOLEAN : Handshake(ok, 25)

SpecFramer == InitStreaming /\ [][FramerNext]_vars

----------------------------------------------------------------------------
(* Specification of the refresh: the token and its refresh as above, and the
   coordinator's periodic update, which starts the client again whenever it
   finds it without a socket, the stop() of a refresh included. The client
   is built with the default token and a refresh yields a token whose expiry
   can be read. *)

\* _async_update_data: the client exists and has no socket, so start() is
\* called; a refresh drops the client as soon as its stop() has returned
PollStart ==
    /\ pc # "none"
    /\ websocket = "None"
    /\ stop_pc # "dropped"
    /\ ~(stop_pc = "stopped" /\ token_refresh_in_progress)
    /\ Start

RefreshNext ==
    \/ CoordinatorStart
    \/ PollStart
    \/ HourPasses
    \/ LoopTop
    \/ \E ok \in BOOLEAN : Connect(ok)
    \/ \E ok \in BOOLEAN : Handshake(ok, 25)
    \/ ConnectionLost
    \/ StreamEnds
    \/ StreamStops
    \/ LifeBackoff(100)
    \/ BackoffElapsed
    \/ StopBegin
    \/ StopCancelTask
    \/ TaskCancelled
    \/ StopCancelWatchdog
    \/ WatchdogCancelled
    \/ StopFinish
    \/ \E ok \in BOOLEAN,
          tok \in {t \in TokensWith(auth_token.id + 1) : GetTokenExpiry(t).known} \cup {auth_token} :
          RefreshAuth(ok, tok)

SpecRefresh == InitConn /\ [][RefreshNext]_vars

----------------------------------------------------------------------------
(* Specification of the re-authentication: the client from construction, the
   refresh its connection task asks for, and the update requests that follow.
   The only stop() is the one of the refresh. The steps of the refresh and of
   the tasks it cancels are taken when they stay possible; nothing is assumed
   of the server, the network and the authentication. *)

\* _async_update_data with a token and no client: neither branch is taken
\* and the device data is returned
PollWithoutClient ==
    /\ stop_pc = "dropped" \/ (stop_pc = "stopped" /\ token_refresh_in_progress)
    /\ NoOutput
    /\ UNCHANGED <<coordVars, clientVars, tokVars, taskVars, monVars, timerVars, histVars>>

\* the stop() that _handle_token_refresh awaits
RefreshStop == stop_pc = "requested" /\ StopBegin

\* the steps of _handle_token_refresh and of the tasks its stop() cancels
RefreshStep ==
    \/ RefreshStop
    \/ StopCancelTask
    \/ TaskCancelled
    \/ StopCancelWatchdog
    \/ WatchdogCancelled
    \/ StopFinish
    \/ \E ok \in BOOLEAN,
          tok \in {t \in TokensWith(auth_token.id + 1) : GetTokenExpiry(t).known} \cup {auth_token} :
          RefreshAuth(ok, tok)

ReauthNext ==
    \/ CoordinatorStart
    \/ PollWithoutClient
    \/ HourPasses
    \/ LoopTop
    \/ \E ok \in BOOLEAN : Connect(ok)
    \/ \E ok \in BOOLEAN : Handshake(ok, 25)
    \/ ConnectionLost
    \/ StreamEnds
    \/ LifeBackoff(100)
    \/ BackoffElapsed
    \/ RefreshStep

SpecReauth == InitConn /\ [][ReauthNext]_vars /\ WF_vars(RefreshStep)

----------------------------------------------------------------------------
(* Coordinator: async_stop, and the specification of the stop: the client
   from construction, its connections and the events it hands on, the token
   refresh, the metadata fetches, and one call of async_stop at any moment.
   A new initial setup after async_stop is not followed. *)

\* the coordinator's refresh has dropped the client (self._ws_client is None)
RefreshDroppedClient ==
    \/ stop_pc = "dropped"
    \/ stop_pc = "stopped" /\ token_refresh_in_progress

\* the last statements of async_stop: the device map and the records are
\* emptied. Whatever client the coordinator holds by now is dropped just
\* before; the coordinator's own copy of the token, cleared here too, is not
\* a variable of the model.
AsyncStopEnds ==
    /\ devices' = EmptyDict
    /\ device_data' = EmptyDict
    /\ async_stop' = "done"
    /\ UNCHANGED <<notified, fetch_tasks>>

\* async_stop() up to its first suspension. Without a client, or with one
\* whose stop() returns at once because the flag is set or because nothing is
\* left to await, it runs to its end. Else it is suspended in the client's
\* stop(); a token refresh scheduled before then starts during the
\* suspension, finds the client, sets its flag, has stop() return at once,
\* drops the client and awaits _authenticate.
AsyncStopCall ==
    /\ async_stop = "idle"
    /\ pc # "none"
    /\ IF RefreshDroppedClient
       THEN /\ AsyncStopEnds
            /\ NoOutput
            /\ UNCHANGED <<clientVars, tokVars, taskVars, monVars, timerVars, histVars>>
       ELSE IF stopping
       THEN /\ stop_calls < MaxStopCalls
            /\ stop_calls' = stop_calls + 1
            /\ AsyncStopEnds
            /\ NoOutput
            /\ UNCHANGED <<clientVars, tokVars, monVars, ws_task, watchdog_task, lost_tasks,
                           lost_watchdogs, raced, timerVars, histVars>>
       ELSE /\ StopEnter
            /\ IF stop_pc' = "stopped"
               THEN AsyncStopEnds
               ELSE /\ async_stop' = "awaiting"
                    /\ UNCHANGED <<device_data, notified, fetch_tasks, devices>>

\* the refresh that started during the suspension of async_stop has its
\* _authenticate return while the client's stop() is still at work. On
\* success _setup_websocket finds no client and the devices still in place,
\* and builds and starts a client: the one async_stop awaits is no longer the
\* coordinator's, and its remaining cleanup is followed no further. On failure
\* the refresh ends and nothing changes.
RefreshDuringStop(ok, tok) ==
    /\ async_stop = "awaiting"
    /\ token_refresh_in_progress
    /\ stop_pc # "stopped"
    /\ IF ok
       THEN /\ auth_token.id < MaxTokens
            /\ tok \in TokensWith(auth_token.id + 1)
            /\ NewClient(tok)
            /\ async_stop' = "awaiting_replaced"
            /\ UNCHANGED <<device_data, notified, fetch_tasks, devices, clock, rejected,
                           signalled, synth_calls, timerVars, last_msg, last_update,
                           merged_frames, fetches_merged, frames_seen>>
       ELSE /\ tok = auth_token
            /\ UNCHANGED <<coordVars, clientVars, tokVars, taskVars, monVars, timerVars,
                           histVars>>
    /\ NoOutput

\* async_stop resumes when the stop() it awaits returns, which no other step
\* of the coordinator precedes, and runs to its end
AsyncStopFinish ==
    /\ \/ async_stop = "awaiting" /\ stop_pc = "stopped"
       \/ async_stop = "awaiting_replaced"
    /\ AsyncStopEnds
    /\ NoOutput
    /\ UNCHANGED <<clientVars, tokVars, taskVars, monVars, timerVars, histVars>>

\* a discovery event of device A, which starts the two metadata fetches
StopFrames ==
    {Frame("42", "event", [base_info |-> [serial_number |-> "A", id |-> "7"], online |-> "True"])}

StopNext ==
    \/ async_stop = "idle" /\ CoordinatorStart
    \/ HourPasses
    \/ LoopTop
    \/ \E ok \in BOOLEAN : Connect(ok)
    \/ \E ok \in BOOLEAN : Handshake(ok, 25)
    \/ ConnectionLost
    \/ \E msg \in StopFrames : frames_seen = 0 /\ StreamRecv(msg)
    \/ LifeBackoff(100)
    \/ BackoffElapsed
    \/ \E i \in 1..Len(fetch_tasks), ok \in BOOLEAN : FetchDone(i, ok)
    \/ async_stop # "done" /\ RefreshStop
    \/ StopCancelTask
    \/ TaskCancelled
    \/ StopCancelWatchdog
    \/ WatchdogCancelled
    \/ StopFinish
    \/ \E ok \in BOOLEAN,
          tok \in {t \in TokensWith(auth_token.id + 1) : GetTokenExpiry(t).known} \cup {auth_token} :
          async_stop # "awaiting" /\ RefreshAuth(ok, tok)
    \/ \E ok \in BOOLEAN,
          tok \in {t \in TokensWith(auth_token.id + 1) : GetTokenExpiry(t).known} \cup {auth_token} :
          RefreshDuringStop(ok, tok)
    \/ AsyncStopCall
    \/ AsyncStopFinish

SpecStop == InitConn /\ [][StopNext]_vars

----------------------------------------------------------------------------
(* Specification of the acquisition: the client from construction, its
   connections lost and made again, and its discovery-timeout tasks. The
   server answers the handshake and never sends a base_info; the client is
   never stopped and its token never comes near expiry. The steps the client
   takes by itself are taken when they stay possible: a sleep that has run
   out ends, a read on a closed socket raises. Nothing is assumed of the
   server and the network. *)

AcquireNext ==
    \/ CoordinatorStart
    \/ LoopTop
    \/ \E ok \in BOOLEAN : Connect(ok)
    \/ \E ok \in BOOLEAN : Handshake(ok, 25)
    \/ \E msg \in HandshakeEvents : HandshakeReadsEvent(msg)
    \/ ConnectionLost
    \/ StreamEnds
    \/ LifeBackoff(100)
    \/ BackoffElapsed
    \/ \E m \in BagToSet(monitors), order \in Orders(DeviceSerials \ devices_with_base_info) :
          MonitorWake(m, order)
    \/ \E m \in BagToSet(monitors) : MonitorScan(m)

\* a step the connection task takes by itself; at most one of them is possible
\* at a time
AcquireTaskStep ==
    \/ CoordinatorStart
    \/ LoopTop
    \/ StreamEnds
    \/ LifeBackoff(100)
    \/ BackoffElapsed

\* a discovery-timeout task is in its first sleep, or in the sleep before a
\* retry scan: the step that ends the sleep is possible
MonitorSleeps(sleep) == \E m \in BagToSet(monitors) : m.pc = sleep

MonitorWakes ==
    \E m \in BagToSet(monitors), order \in Orders(DeviceSerials \ devices_with_base_info) :
        MonitorWake(m, order)

MonitorScans == \E m \in BagToSet(monitors) : MonitorScan(m)

\* weak fairness of the task's steps and of the ends of the monitors' sleeps,
\* the latter written out with the condition under which a sleep can end
AcquireFairness ==
    /\ WF_vars(AcquireTaskStep)
    /\ ([]<>~MonitorSleeps("wait")) \/ ([]<><<MonitorWakes>>_vars)
    /\ ([]<>~MonitorSleeps("retry")) \/ ([]<><<MonitorScans>>_vars)

SpecAcquire == InitConn /\ [][AcquireNext]_vars /\ AcquireFairness

----------------------------------------------------------------------------
(* Properties of the merge *)

\* the step handled an event frame
EventStep == frames_seen' = frames_seen + 1

\* the step merged a steady-state payload into the existing record of serial
SteadyMergeStep(serial) ==
    /\ EventStep
    /\ last_update' # EmptyDict
    /\ ~Has(last_msg'.payload, "base_info")
    /\ EventSerial(last_msg'.payload) = serial
    /\ serial \in DOMAIN device_data

\* the latest frame was an event that was merged for serial
LastMerged(serial) ==
    /\ last_msg.name = "event"
    /\ last_update # EmptyDict
    /\ EventSerial(last_msg.payload) = serial
    /\ serial \in DOMAIN device_data

\* no relay entry of the payload carries the key
Omits(payload, key) ==
    Has(payload, "relays") => \A i \in DOMAIN payload["relays"] : ~Has(payload["relays"][i], key)

\* the relay entries of a payload, the readings of a payload
RelaysOf(payload) == {payload["relays"][i] : i \in DOMAIN GetOr(payload, "relays", << >>)}
ReadingsOf(payload) == {payload["readings"][i] : i \in DOMAIN GetOr(payload, "readings", << >>)}

\* C1: the device map holds records of configured serials only, and an event
\* whose serial is not configured (or missing) changes no record, marks no
\* device discovered, notifies no listener and hands nothing to the data callback.
C1_UnknownSerialDropped ==
    /\ [](DOMAIN device_data \subseteq DeviceSerials)
    /\ [][(EventStep /\ EventSerial(last_msg'.payload) \notin DeviceSerials)
            => /\ device_data' = device_data
               /\ devices_with_base_info' = devices_with_base_info
               /\ notified' = notified
               /\ fetch_tasks' = fetch_tasks
               /\ last_update' = EmptyDict]_vars

\* a base_info event for the unconfigured serial "C" was dropped while "A" has a record
C1_Witness ==
    /\ last_msg.name = "event"
    /\ Has(last_msg.payload, "base_info")
    /\ EventSerial(last_msg.payload) = "C"
    /\ "A" \in DOMAIN device_data
    /\ "C" \notin DOMAIN device_data
    /\ "C" \notin devices_with_base_info
    /\ last_update = EmptyDict

\* C2: merging a steady-state payload that omits function (mode) leaves a
\* non-null function (mode) of the record unchanged, whether one or both are omitted.
C2_OmittedFunctionModePreserved ==
    [][\A serial \in DeviceSerials : \A key \in {"function", "mode"} :
          (/\ SteadyMergeStep(serial)
           /\ device_data[serial][key] # None
           /\ Omits(last_msg'.payload, key))
          => device_data'[serial][key] = device_data[serial][key]]_vars

\* a relays payload that omits both was merged into a record that holds both
C2_Witness ==
    /\ LastMerged("A")
    /\ ~Has(last_msg.payload, "base_info")
    /\ Has(last_msg.payload, "relays")
    /\ Omits(last_msg.payload, "function")
    /\ Omits(last_msg.payload, "mode")
    /\ device_data["A"]["function"] = "heating"
    /\ device_data["A"]["mode"] = "manual"

\* C3: merging a steady-state payload keeps every sensor entry the record
\* already holds, with its value, when the payload's readings do not mention it.
C3_SensorEntriesKept ==
    [][\A serial \in DeviceSerials :
          SteadyMergeStep(serial) =>
             \A key \in DOMAIN device_data[serial]["sensor_readings"] :
                (\A reading \in ReadingsOf(last_msg'.payload) : SensorKey(reading) # key)
                => /\ key \in DOMAIN device_data'[serial]["sensor_readings"]
                   /\ device_data'[serial]["sensor_readings"][key]
                         = device_data[serial]["sensor_readings"][key]]_vars

\* the reading of the sensor the record's pointer designates, "absent" if none
DesignatedReading(record) ==
    IF ~Truthy(record["controlling_src"]) THEN "absent"
    ELSE IF ControllingKey(record["controlling_src"], record["controlling_sensor"])
               \notin DOMAIN record["sensor_readings"]
    THEN "absent"
    ELSE GetOr(record["sensor_readings"][ControllingKey(record["controlling_src"],
                                                         record["controlling_sensor"])],
               "reading", "absent")

\* C4: after every merge, current_temperature is the stored reading of the
\* sensor the controlling-sensor pointer designates.
C4_CurrentTemperatureFollowsPointer ==
    \A serial \in DOMAIN device_data :
        DesignatedReading(device_data[serial]) # "absent"
        => device_data[serial]["current_temperature"] = DesignatedReading(device_data[serial])

\* C5: "N/A" on a reading, a setpoint or controlling_reading is stored as None,
\* never as 0, and a value 0 is stored as 0.
C5_SentinelIsAbsent ==
    \A serial \in DeviceSerials :
        LastMerged(serial) =>
            /\ \A reading \in ReadingsOf(last_msg.payload) :
                  /\ (reading["type"] = "TEMPERATURE" /\ reading["reading"] = "N/A") =>
                        device_data[serial]["sensor_readings"][SensorKey(reading)]["reading"] = None
                  /\ (reading["type"] = "TEMPERATURE" /\ reading["reading"] = "0") =>
                        device_data[serial]["sensor_readings"][SensorKey(reading)]["reading"] = "0"
                  /\ (/\ reading = last_msg.payload["readings"][1]
                      /\ reading["type"] = "TEMPERATURE"
                      /\ reading["reading"] \in {"N/A", "0"}) =>
                        device_data[serial]["temperature"] = NormReading(reading["reading"])
                  /\ (reading["type"] = "HUMIDITY" /\ reading["reading"] = "N/A") =>
                        device_data[serial]["humidity"] = None
                  /\ (reading["type"] = "TARGET_TEMPERATURE" /\ reading["reading"] = "N/A") =>
                        device_data[serial]["target_temperature"] = None
            /\ \A relay \in RelaysOf(last_msg.payload) :
                  /\ (Get(relay, "mode") = "MANUAL" /\ Get(relay, "manual_set_point") = "N/A") =>
                        device_data[serial]["target_temperature"] = None
                  /\ (Get(relay, "mode") = "SCHEDULE" /\ Get(relay, "schedule_set_point") = "N/A") =>
                        device_data[serial]["target_temperature"] = None
                  /\ (~Has(relay, "mode") /\ Get(relay, "manual_set_point") = "N/A") =>
                        device_data[serial]["target_temperature"] = None
                  /\ (Get(relay, "mode") = "MANUAL" /\ Get(relay, "manual_set_point") = "0") =>
                        device_data[serial]["target_temperature"] = "0"
                  /\ Get(relay, "controlling_reading") = "N/A" =>
                        device_data[serial]["current_temperature"] = None
                  /\ Get(relay, "controlling_reading") = "0" =>
                        device_data[serial]["current_temperature"] = "0"

\* a reading "N/A" was merged over a record and is stored as None
C5_Witness ==
    /\ LastMerged("A")
    /\ \E reading \in ReadingsOf(last_msg.payload) :
          /\ reading["reading"] = "N/A"
          /\ reading["type"] = "TEMPERATURE"
          /\ device_data["A"]["sensor_readings"][SensorKey(reading)]["reading"] = None
          /\ device_data["A"]["temperature"] = None
    /\ frames_seen = 2

\* C6: merging the discovery payload that was just merged once more leaves the record as it is.
C6_BaseInfoMergeIdempotent ==
    \A serial \in DeviceSerials :
        (LastMerged(serial) /\ Has(last_msg.payload, "base_info"))
        => MergeEvent(device_data, last_msg.payload).data[serial] = device_data[serial]

\* C7: every merged event frame, a base_info frame included, leads to exactly
\* one notification of the listeners.
C7_OneNotificationPerFrame == notified = merged_frames

\* C7, amended: handling a merged event frame notifies the listeners exactly once
\* in that step, and every further notification is that of a metadata fetch
\* which a base_info frame with a device id started and which succeeded.
C7_OneNotificationPerMerge ==
    /\ [](notified = merged_frames + fetches_merged)
    /\ [][(EventStep /\ last_update' # EmptyDict) => notified' = notified + 1]_vars
    /\ [][(EventStep /\ last_update' = EmptyDict) => notified' = notified]_vars

\* a base_info frame with a device id was merged and one of its fetches has notified as well
C7_Witness ==
    /\ LastMerged("A")
    /\ Has(last_msg.payload, "base_info")
    /\ Has(last_msg.payload["base_info"], "id")
    /\ merged_frames = 1
    /\ fetches_merged = 1
    /\ notified = 2

----------------------------------------------------------------------------
(* Properties of the connection *)

\* the step is a round of the watchdog loop that did not find the client stopping
WatchdogStep == watchdog_left = 0 /\ watchdog_left' > 0 /\ pc' = pc

\* the socket is open and no message came for more than 1.2 times the ping interval
StaleOpen ==
    /\ websocket = "open"
    /\ ping_interval # 0
    /\ time_since_last_message >= 0
    /\ Stale(time_since_last_message, ping_interval)

\* C8: the connection task ends only after stop was requested: every failure is
\* followed by a backoff wait and a new attempt.
C8_TaskEndsOnlyAfterStop == pc = "done" => stopping

\* C9: while streaming, a socket on which no message came for more than 1.2
\* times the ping interval is closed by the watchdog's own next check, whatever
\* the read loop is waiting for, so an open socket is never staler than that
\* plus one check interval; after the close the next run of the connection loop
\* begins within the first backoff.
C9_WatchdogClosesStaleConnection ==
    /\ []((pc = "stream" /\ websocket = "open")
            => time_since_last_message * 10
                  <= ping_interval * 12 + CheckInterval(ping_interval) * 10)
    /\ [][(WatchdogStep /\ StaleOpen) => (websocket' = "closed" /\ since_close' = 0)]_vars
    /\ []((since_close >= 0 /\ ~stopping /\ ~token_near_expiry)
            => (pc # "done" /\ since_close * 100 <= ConnectedReconnectInterval * 120))

\* the watchdog has closed the socket 31 s after the last message while the
\* read loop is still inside its wait
C9_Witness ==
    /\ pc = "stream"
    /\ websocket = "closed"
    /\ since_close = 0
    /\ ping_interval = 25
    /\ time_since_last_message = 31
    /\ recv_left > 0
    /\ ~stopping

C11_BackoffDoublesUpToCap ==
    /\ (pc = "sleep" /\ reconnect_interval = InitialReconnectInterval
            /\ reconnect_attempts \in 1..5)
          => /\ sleep_left * 100 >= InitialReconnectInterval * 2^(reconnect_attempts - 1) * 80
             /\ sleep_left * 100 <= InitialReconnectInterval * 2^(reconnect_attempts - 1) * 120
    /\ pc = "sleep" => sleep_left <= MaxReconnectInterval
    /\ last_backoff <= MaxReconnectInterval

\* the fifth failed attempt in a row waits 160 s (jitter 1.0), the base still 10 s
C11_Witness ==
    /\ pc = "sleep"
    /\ reconnect_interval = InitialReconnectInterval
    /\ reconnect_attempts = 5
    /\ sleep_left = 160

\* C12: at any time at most one connection task and at most one watchdog task
\* of the client is alive, however start() and stop() interleave.
C12_AtMostOneTaskOfEachKind == lost_tasks = 0 /\ lost_watchdogs = 0

\* the state of a client that was stopped: flag set, no socket handle, no task
Stopped ==
    /\ stopping
    /\ websocket = "None"
    /\ pc \in {"none", "done"}
    /\ watchdog \in {"none", "done"}
    /\ lost_tasks = 0
    /\ lost_watchdogs = 0

\* C13: a stop() call on a client whose flag is set changes nothing of the
\* client, and when the stop() calls made since the latest start() have
\* returned the client is in the stopped state, whether there was one call or
\* two (no start() having run in the middle of a stop()).
C13_StopIdempotent ==
    /\ [][(stopping /\ stop_calls' = stop_calls + 1)
            => UNCHANGED <<coordVars, clientVars, ws_task, watchdog_task, lost_tasks,
                           lost_watchdogs, timerVars>>]_vars
    /\ []((stop_pc = "stopped" /\ stop_calls >= 1 /\ ~raced) => Stopped)

\* a second stop() was called and both have returned
C13_Witness ==
    /\ stop_pc = "stopped"
    /\ stop_calls = 2
    /\ ~raced
    /\ Stopped
    /\ ws_task = "None"
    /\ watchdog_task = "None"

----------------------------------------------------------------------------
(* Properties of the discovery *)

\* C14: once stop() has returned, no step of the client sends a frame or
\* invokes the data callback, synthesis requests included
C14_SilentAfterStop ==
    (stop_pc = "stopped" /\ stopping) => (sent = << >> /\ called = << >>)

----------------------------------------------------------------------------
(* Properties of the framing *)

\* C15: a ping received while streaming is answered with exactly one pong
\* and sets the last-message time to the time of receipt; a pong is sent
\* for no other frame
C15_OnePongPerPing ==
    /\ [][StreamRecv(ControlFrame("2")) =>
            /\ sent' = << <<"3">> >>
            /\ time_since_last_message' = 0]_vars
    /\ [](\A i \in DOMAIN sent :
            sent[i] = <<"3">> => (last_msg = ControlFrame("2") /\ Len(sent) = 1
                                  /\ time_since_last_message = 0))

C15_Witness ==
    /\ last_msg = ControlFrame("2")
    /\ sent = << <<"3">> >>
    /\ time_since_last_message = 0
    /\ frames_seen = 2

\* C19: an exception frame with status "error" and message "Forbidden
\* resource" closes the connection, and an exception frame that carries the
\* close code 1000 or 1005 and is not that error leaves it open
C19_NormalClosureNotFatal ==
    (pc = "stream" /\ last_msg \in ExceptionFrames) =>
        /\ Forbidden(last_msg.payload) => websocket = "closed"
        /\ (~Forbidden(last_msg.payload) /\ last_msg.payload \in NormalClosurePayloads)
              => websocket = "open"

\* C20: a frame that is not a well-formed event of the namespace gets the
\* result none from the framer, and receiving it closes nothing, changes no
\* device record, sends nothing and calls nothing back
C20_MalformedIgnored ==
    [][\A msg \in MalformedFrames :
          StreamRecv(msg) =>
             /\ HandleWebsocketMessage(msg) = "none"
             /\ websocket' = "open"
             /\ pc' = "stream"
             /\ UNCHANGED <<coordVars, devices_with_base_info>>
             /\ sent' = << >>
             /\ called' = << >>]_vars

C20_Witness ==
    /\ last_msg = Malformed("exception, payload not an object")
    /\ websocket = "open"
    /\ pc = "stream"
    /\ "A" \in DOMAIN device_data

----------------------------------------------------------------------------
(* Properties of the token *)

\* C16: no login frame carries a token whose login the server has rejected
C16_RejectedTokenNotSentAgain ==
    \A i \in DOMAIN sent : sent[i][1] = "login" => sent[i][2] \notin rejected

\* the payload of the token decodes and carries a numeric exp entry
ExpiryKnown(token) ==
    /\ token.segments >= 2
    /\ token.b64 = "ok"
    /\ token.json = "object"
    /\ token.exp_kind = "number"

\* C17: a connection cycle that starts with a token needing refresh opens no
\* socket and sends nothing, and asks the coordinator for the refresh unless
\* one is in progress; no socket is open and no login is sent with a token
\* for which the refresh was asked
C17_NoConnectionWithTokenToRefresh ==
    /\ [][(LoopTop /\ ~stopping /\ token_near_expiry) =>
            /\ pc' = "backoff"
            /\ websocket' = websocket
            /\ sent' = << >>
            /\ called' = IF token_refresh_in_progress THEN << >>
                         ELSE << <<"token_refresh_needed">> >>]_vars
    /\ [](websocket = "open" => auth_token.id \notin signalled)
    /\ [](\A i \in DOMAIN sent : sent[i][1] = "login" => sent[i][2] \notin signalled)

C17_Witness ==
    /\ 1 \in signalled
    /\ sent = << <<"login", 2>> >>
    /\ websocket = "open"

\* C18: the token needs refresh exactly when its payload decodes to an
\* expiry and the time plus the lead has reached it; a token whose payload
\* does not decode, or has no expiry, never needs refresh
C18_NeedsRefreshExactlyInLeadWindow ==
    /\ token_near_expiry <=> (ExpiryKnown(auth_token) /\ clock + 1 >= auth_token.exp)
    /\ ~ExpiryKnown(auth_token) => ~GetTokenExpiry(auth_token).known

C18_Witness ==
    /\ token_near_expiry
    /\ clock + 1 = auth_token.exp
    /\ auth_token.id = 2

----------------------------------------------------------------------------
(* Properties of the synthesis *)

\* the serials whose synthesis a step has asked for
Synthesized(calls) ==
    {calls[i][2] : i \in {j \in DOMAIN calls : calls[j][1] = "synthesize_base_info_needed"}}

\* an entry of the record, or of its base_info, that says it was synthesized
MarkedSynthesized(record) ==
    \/ Has(record, "discovered")
    \/ Has(record, "base_info") /\ Has(record["base_info"], "discovered")

\* what the device had reported before the step: readings, online flag,
\* temperatures
Observed(serial) ==
    IF serial \notin DOMAIN device_data THEN EmptyDict
    ELSE [k \in {"sensor_readings", "online", "temperature", "current_temperature",
                 "target_temperature"} \cap DOMAIN device_data[serial] |->
             device_data[serial][k]]

\* C21: a device whose retries are used up has, after the synthesis, a record
\* with its serial, type and firmware that is marked as discovered via
\* synthesis, and its readings, online flag and temperatures are as before
C21_SynthesizedRecordMarked ==
    [][\A serial \in Synthesized(called') :
          /\ Has(device_data'[serial], "base_info")
          /\ Get(device_data'[serial]["base_info"], "serial_number") = serial
          /\ Get(device_data'[serial]["base_info"], "device_type") = Get(Devices[serial], "device_type")
          /\ Get(device_data'[serial]["base_info"], "fw_ver") = Get(Devices[serial], "fw_ver")
          /\ \A k \in DOMAIN Observed(serial) :
                Get(device_data'[serial], k) = Observed(serial)[k]
          /\ MarkedSynthesized(device_data'[serial])]_vars

----------------------------------------------------------------------------
(* Properties of the acquisition *)

\* the device has a record with a base_info, received or synthesized
Acquired(serial) ==
    /\ Has(device_data, serial)
    /\ Has(device_data[serial], "available_relay_ids")

\* the handshake of a connection is through and the socket is open
Established == pc = "stream" /\ websocket = "open"

\* C22: on a client that is not stopped and whose connections are made again
\* whenever they are lost, every configured device eventually has a record
\* built from a received or a synthesized base_info, whether or not the
\* server answers the discovery requests
C22_EveryDeviceAcquiresRecord ==
    ([]<>Established) => <>(\A serial \in DeviceSerials : Acquired(serial))

----------------------------------------------------------------------------
(* Properties of the order of the merges *)

\* the record of serial before the step, as a merge finds or creates it
RecordBefore(serial) ==
    IF serial \in DOMAIN device_data THEN device_data[serial] ELSE InitializeDeviceData(serial)

\* the step merged the frame it received, whole, into the record of serial:
\* every entry of the frame's update is in the record, function and mode
\* being kept when the update has none, and every other entry is as before
FrameMergedWhole(serial) ==
    /\ EventStep
    /\ merged_frames' = merged_frames + 1
    /\ fetches_merged' = fetches_merged
    /\ EventSerial(last_msg'.payload) = serial
    /\ \A k \in DOMAIN last_update' \ {"function", "mode"} :
          device_data'[serial][k] = last_update'[k]
    /\ \A k \in DOMAIN RecordBefore(serial) \ DOMAIN last_update' :
          Get(device_data'[serial], k) = RecordBefore(serial)[k]

\* the step stored the result of one metadata fetch in the record of serial
\* and left its other entries as they were
FetchMergedWhole(serial) ==
    /\ ~EventStep
    /\ merged_frames' = merged_frames
    /\ fetches_merged' = fetches_merged + 1
    /\ serial \in DOMAIN device_data
    /\ \A k \in DOMAIN device_data[serial] \ {"sensor_metadata", "wifi_info"} :
          Get(device_data'[serial], k) = device_data[serial][k]

\* the serials whose record the step created or changed
RecordsChanged ==
    {serial \in DOMAIN device_data' :
        serial \notin DOMAIN device_data \/ device_data'[serial] # device_data[serial]}

----------------------------------------------------------------------------
(* Properties of the handshake *)

\* the frames of a kind that the step sent
SentOf(kind) == {i \in DOMAIN sent' : sent'[i][1] = kind}

\* C24: on every connection the login is sent when the open frame has come,
\* the subscription when the login response has come without an error, and
\* then one scan for each configured device in turn, each when the response
\* before it has come; no scan is sent on a connection before its
\* subscription is answered, and the streaming starts when the response to
\* the last scan has come
C24_HandshakeInOrder ==
    [][/\ SentOf("login") # {} => pc = "open" /\ pc' = "login" /\ Len(sent') = 1
       /\ SentOf("subscribe") # {} => pc = "login" /\ pc' = "subscribe" /\ Len(sent') = 1
       /\ \A i \in SentOf("scan") :
             \/ pc = "stream"
             \/ /\ pc = "subscribe" /\ pc' = "scan"
                /\ sent' = << <<"scan", DeviceSerialList[1]>> >>
             \/ /\ pc = "scan" /\ pc' = "scan" /\ scan_index' = scan_index + 1
                /\ sent' = << <<"scan", DeviceSerialList[scan_index']>> >>
       /\ (pc # "stream" /\ pc' = "stream") =>
             pc = "scan" /\ scan_index = Len(DeviceSerialList)]_vars

----------------------------------------------------------------------------
(* Properties of the backoff reset *)

\* C25: the attempt counter and the base interval of the backoff are reset
\* only by a step of the read loop that received a frame after the
\* handshake, so that connections that fail in the handshake keep counting
C25_ResetOnlyAfterHandshake ==
    [][(reconnect_attempts' < reconnect_attempts \/ reconnect_interval' # reconnect_interval)
          => (pc = "stream" /\ time_since_last_message' = 0)]_vars

----------------------------------------------------------------------------
(* Properties of the refresh *)

\* a refresh routine has been asked for or is running on this client
RefreshInProgress == stop_pc = "requested" \/ token_refresh_in_progress

\* C26: no step of the client asks for a token refresh while one is in
\* progress, so no second refresh routine is started beside it
C26_OneRefreshAtATime ==
    [][(\E i \in DOMAIN called' : called'[i][1] = "token_refresh_needed")
          => ~RefreshInProgress]_vars

\* the client was started again during the stop() of a refresh and its
\* connection cycle has found the token near expiry without asking again
C26_Witness ==
    /\ token_refresh_in_progress
    /\ ~stopping
    /\ token_near_expiry
    /\ pc = "backoff"
    /\ called = << >>
    /\ signalled = {auth_token.id}

----------------------------------------------------------------------------
(* Properties of the forbidden-resource exception *)

ForbiddenFrames == {Frame("42", "exception", p) : p \in ForbiddenPayloads}

\* C27: a "Forbidden resource" exception frame received while streaming
\* closes the socket and merges, sends and calls back nothing; the read loop
\* then ends into the backoff, which counts the attempt and sleeps the delay
\* of the backoff formula, and the cycle starts again
C27_ForbiddenClosesAndBacksOff ==
    [][/\ \A msg \in ForbiddenFrames :
             StreamRecv(msg) =>
                /\ websocket' = "closed"
                /\ UNCHANGED <<coordVars, devices_with_base_info>>
                /\ sent' = << >>
                /\ called' = << >>
       /\ (last_msg \in ForbiddenFrames /\ pc = "stream" /\ pc' # pc) =>
             /\ websocket = "closed"
             /\ pc' = "backoff"
             /\ reconnect_attempts' = reconnect_attempts
       /\ (last_msg \in ForbiddenFrames /\ pc = "backoff" /\ pc' # pc) =>
             /\ pc' = "sleep"
             /\ reconnect_attempts' = reconnect_attempts + 1
             /\ \E pct \in JitterPct :
                   sleep_left' = BackoffTime(reconnect_interval, reconnect_attempts', pct)
       /\ (last_msg \in ForbiddenFrames /\ pc = "sleep" /\ pc' # pc) => pc' = "loop"]_vars

C27_Witness ==
    /\ last_msg \in ForbiddenFrames
    /\ websocket = "closed"
    /\ pc = "sleep"
    /\ reconnect_attempts = 1
    /\ sleep_left = BackoffTime(ConnectedReconnectInterval, 1, 120)
    /\ merged_frames = 1

----------------------------------------------------------------------------
(* Properties of the retries *)

\* C28: no device's retry counter exceeds the budget of 3; a retry scan is
\* sent only by a task whose timeout has run out and only for a device that
\* has received no base_info; and every retry the counter has counted is
\* sent: the task that counted it sends the scan when its sleep ends
C28_RetriesWithinBudget ==
    /\ [](\A serial \in DeviceSerials : scan_retry_count[serial] <= MaxScanRetries)
    /\ [][\A serial \in DeviceSerials :
             /\ scan_retry_count'[serial] \in {scan_retry_count[serial],
                                               scan_retry_count[serial] + 1}
             /\ (pc = "stream" /\ \E i \in DOMAIN sent' : sent'[i] = <<"scan", serial>>) =>
                   /\ \E m \in BagToSet(monitors) : m.pc = "retry" /\ m.cur = serial
                   /\ serial \notin devices_with_base_info
             /\ (\E m \in BagToSet(monitors) :
                    /\ m.pc = "retry" /\ m.cur = serial
                    /\ BagCardinality(monitors' (-) SetToBag({m}))
                          = BagCardinality(monitors')) =>
                   \E i \in DOMAIN sent' : sent'[i] = <<"scan", serial>>]_vars

-----------------------------------------------------------------------------
(* Properties of the watchdog *)

\* C29: a round of the watchdog loop handles no frame and assigns no
\* connection state: the socket handle stays set or unset as it was, the
\* last-message time, the ping interval (set together with the session id by
\* the open frame), the reconnect-attempt counter, the reconnect interval and
\* the stopping flag are unchanged; the only effect is that the socket the
\* handle refers to may be closed.
C29_WatchdogLeavesConnectionState ==
    [][Watchdog =>
          /\ (websocket' = "None") <=> (websocket = "None")
          /\ websocket' \in {websocket, "closed"}
          /\ UNCHANGED <<time_since_last_message, ping_interval, reconnect_attempts,
                         reconnect_interval, stopping, pc>>
          /\ UNCHANGED <<last_msg, frames_seen, merged_frames, device_data>>]_vars

\* the watchdog's round has just closed a stale socket and gone to sleep for
\* its check interval; the handle still refers to the socket
C29_Witness ==
    /\ watchdog = "running"
    /\ watchdog_left = CheckInterval(ping_interval)
    /\ since_close = 0
    /\ websocket = "closed"
    /\ time_since_last_message * 10 > ping_interval * 12
    /\ reconnect_attempts = 0

-----------------------------------------------------------------------------
(* Properties of the setpoint *)

\* the mode a relay entry is merged under: its own, or the record's when it
\* carries none
CurrentMode(record, relay) ==
    IF Has(relay, "mode")
    THEN IF relay["mode"] # None THEN Lower(relay["mode"]) ELSE None
    ELSE record["mode"]

\* C30: a steady-state payload with relay entries and no readings is merged so
\* that, for each relay entry, under mode schedule (the entry's own mode, or
\* the record's when the entry omits it) the target is the entry's scheduled
\* setpoint, under mode manual its manual setpoint, and an entry in mode off
\* leaves the target as it was.
C30_SetpointFollowsCurrentMode ==
    [][\A serial \in DeviceSerials :
          (SteadyMergeStep(serial) /\ ~Has(last_msg'.payload, "readings")) =>
             \A relay \in RelaysOf(last_msg'.payload) :
                /\ (CurrentMode(device_data[serial], relay) = "schedule"
                      /\ Has(relay, "schedule_set_point")) =>
                      device_data'[serial]["target_temperature"]
                         = NormSetPoint(relay["schedule_set_point"])
                /\ (CurrentMode(device_data[serial], relay) = "manual"
                      /\ Has(relay, "manual_set_point")) =>
                      device_data'[serial]["target_temperature"]
                         = NormSetPoint(relay["manual_set_point"])
                /\ (Has(relay, "mode") /\ relay["mode"] = "OFF") =>
                      device_data'[serial]["target_temperature"]
                         = device_data[serial]["target_temperature"]]_vars

-----------------------------------------------------------------------------
(* Properties of the watchdog and the handshake *)

\* the step is a watchdog round that closed the open socket
WatchdogClosedSocket == Watchdog /\ websocket = "open" /\ websocket' = "closed"

\* C31: the watchdog closes an open socket only when the read loop of that
\* connection is running and no message came on it for more than 1.2 times the
\* ping interval; a connection still in its handshake is not closed on the
\* last-message time an earlier connection left.
C31_WatchdogJudgesOwnConnection ==
    [][WatchdogClosedSocket =>
          /\ pc = "stream"
          /\ Stale(time_since_last_message, ping_interval)]_vars

-----------------------------------------------------------------------------
(* Properties of the online flag *)

\* C32: merging a steady-state payload that has no online field leaves the
\* record's online flag as it was.
C32_OmittedOnlineKept ==
    [][\A serial \in DeviceSerials :
          (SteadyMergeStep(serial) /\ ~Has(last_msg'.payload, "online"))
          => device_data'[serial]["online"] = device_data[serial]["online"]]_vars

-----------------------------------------------------------------------------
(* Properties of function and mode under explicit nulls *)

\* C33: no step changes the function or the mode of a record from a value to
\* None, whatever the payload's relay entries carry for them.
C33_FunctionModeNeverNulled ==
    [][\A serial \in DOMAIN device_data : \A key \in {"function", "mode"} :
          (device_data[serial][key] # None /\ serial \in DOMAIN device_data')
          => device_data'[serial][key] # None]_vars

-----------------------------------------------------------------------------
(* Properties of the discovery-timeout tasks *)

\* the record of serial was synthesized at an earlier step: it has the
\* discovery fields although the client never saw a base_info frame for it
SynthesizedBefore(serial) == Acquired(serial) /\ serial \notin devices_with_base_info

\* C34: on one connection a step requests the synthesis of a device at most
\* once and never again for a device synthesized before, and at most one
\* discovery-timeout task is waiting for the timeout at any time.
C34_OneTimerOneSynthesis ==
    /\ [](CopiesIn(WaitingMonitor, monitors) <= 1)
    /\ [][\A serial \in DeviceSerials :
             /\ Cardinality({i \in DOMAIN called' :
                    called'[i] = <<"synthesize_base_info_needed", serial>>}) <= 1
             /\ serial \in Synthesized(called') => ~SynthesizedBefore(serial)]_vars

-----------------------------------------------------------------------------
(* Properties of the discovery-timeout tasks across connections *)

\* the connection task is inside the handshake of a connection
Handshaking == pc \in {"open", "login", "subscribe", "scan"}

\* the step is one of a discovery-timeout task
MonitorStep == pc' = pc /\ monitors' # monitors

\* C35: a discovery-timeout task acts only on the connection whose handshake
\* started it: while a connection is in its handshake, which has started no
\* task yet, no task counts a retry or sends a scan.
C35_TimerActsOnOwnConnection ==
    [][(Handshaking /\ MonitorStep)
          => (scan_retry_count' = scan_retry_count /\ sent' = << >>)]_vars

-----------------------------------------------------------------------------
(* Properties of the retry budget across connections *)

\* the step ends the handshake of a connection
HandshakeDone == pc = "scan" /\ pc' = "stream"

\* C36: when the handshake of a connection is done, every device the client
\* has seen no base_info of has its whole budget of retries: its retry counter is 0.
C36_FullBudgetPerConnection ==
    [][HandshakeDone =>
          \A serial \in DeviceSerials \ devices_with_base_info' :
              scan_retry_count'[serial] = 0]_vars

-----------------------------------------------------------------------------
(* Properties of the events that arrive during the handshake *)

\* C37: a base_info event frame of a configured device that is read while the
\* login, subscribe or scan response is awaited marks the device discovered
\* and is merged into its record.
C37_BaseInfoDuringHandshakeMerged ==
    [][\A msg \in HandshakeEvents :
          HandshakeReadsEvent(msg) =>
             /\ EventSerial(msg.payload) \in devices_with_base_info'
             /\ EventSerial(msg.payload) \in DOMAIN device_data'
             /\ Get(device_data'[EventSerial(msg.payload)], "base_info") # None]_vars

-----------------------------------------------------------------------------
(* Properties of the coordinator's clients *)

\* the coordinator's refresh has dropped its reference to the client
ClientDropped ==
    \/ stop_pc = "dropped"
    \/ stop_pc = "stopped" /\ token_refresh_in_progress

\* a connection task of the client is running
ConnectionTaskRuns == pc \notin {"none", "done"} \/ lost_tasks > 0

\* C38: a client the coordinator no longer references has no running
\* connection task, so the client the refresh builds next is the only one
\* that runs.
C38_NoClientRunsUnreferenced == ClientDropped => ~ConnectionTaskRuns

-----------------------------------------------------------------------------
(* Properties of a failed re-authentication *)

\* C39: after a re-authentication that failed, the coordinator eventually has
\* a client again whose connection task runs.
C39_ClientAgainAfterFailedReauth ==
    (stop_pc = "dropped") ~> (stop_pc # "dropped" /\ pc \notin {"none", "done"})


-----------------------------------------------------------------------------
(* Properties of the coordinator's stop *)

\* async_stop has completed
AsyncStopCompleted == async_stop = "done"

\* a connection task begins or goes on with a connection
ClientStarts == pc' # pc /\ pc' \in {"loop", "connect", "open", "login", "subscribe", "scan", "stream"}

\* after async_stop no device has a record, whatever was in flight
C40_NoRecordAfterStop == AsyncStopCompleted => device_data = EmptyDict

\* C40: once async_stop has completed no connection task of a client runs,
\* no device has a record, and no client is started or goes on connecting,
\* whatever update, fetch result or token refresh was in flight at the call.
C40_StoppedCoordinatorStaysStopped ==
    /\ [](AsyncStopCompleted => (~ConnectionTaskRuns /\ device_data = EmptyDict))
    /\ [][AsyncStopCompleted => ~ClientStarts]_vars

====
